---- MODULE Spec2Model ----
(***************************************************************************)
(* Candle Clash: the duel_arena escrow contract (Move), and the backend    *)
(* referee (reportPnlForDuel) that settles duels through it.               *)
(***************************************************************************)
EXTENDS Integers, Sequences, FiniteSets, Bags, TLC

(* ------------------------------------------------------------------------ *)
(* Constants of the contract                                                *)
(* ------------------------------------------------------------------------ *)
E_NOT_ADMIN == 1
E_DUEL_NOT_FOUND == 2
E_DUEL_NOT_ACTIVE == 3
E_DUEL_ALREADY_RESOLVED == 4
E_DUEL_NOT_EXPIRED == 5
E_INVALID_WAGER == 6
E_ALREADY_IN_DUEL == 7

GRACE_PERIOD_SECS == 60
FEE_BASIS_POINTS == 100
BPS_DENOMINATOR == 10000

ADMIN_ADDRESS == "admin"
ZERO_ADDRESS == "0x0"

\* Abort codes of the framework calls the contract makes.  An abort is the
\* pair (module that raised it, code): coin::withdraw and create_duel both
\* use the number 6.
EINSUFFICIENT_BALANCE == 6
TABLE_NOT_FOUND == 101

\* The status of a transaction whose u64 arithmetic overflows: Move checks
\* every addition and multiplication and aborts the transaction.
ARITHMETIC_ERROR == 4017

(* ------------------------------------------------------------------------ *)
(* Bounds of the model                                                      *)
(* ------------------------------------------------------------------------ *)
MaxDuels == 1          \* create_duel succeeds while next_id < MaxDuels
MaxDuration == 1       \* duration_secs is drawn from 0..MaxDuration
MaxLate == 1           \* the clock reaches GRACE_PERIOD_SECS + MaxLate
InitBalance == 150     \* every account's AptosCoin balance at the start
MAX_U64 == 65535       \* the largest u64, the word scaled to 16 bits

MaxCalls == 2          \* reportPnlForDuel invocations awaiting at the same time
MaxReports == 3        \* report-pnl requests received over a run
MaxPnl == 1            \* reported pnlPercent is drawn from 0..MaxPnl
MaxDay == 1            \* the backend's date runs over 0..MaxDay

Signers == {ADMIN_ADDRESS, "alice", "bob"}
Addresses == Signers \cup {ZERO_ADDRESS}
Wagers == {0, 50, 75, 100, 200}
Durations == 0..MaxDuration
DuelIds == 0..MaxDuels
TimePoints == {0} \cup {GRACE_PERIOD_SECS + k : k \in 0..MaxLate}

VARIABLES
    next_id,      \* DuelStore.next_id
    duels,        \* DuelStore.duels : duel_id -> Duel (pot is the coin value held)
    balances,     \* CoinStore<AptosCoin> of every account
    now,          \* timestamp::now_seconds()
    flow,         \* per duel: coins merged into / extracted from the pot so far
    lastCall,     \* the last call of a collaborator (a transaction of the contract,
                  \* a request to Photon) and how it ended
    adminAccount, \* referee: is ADMIN_PRIVATE_KEY (and MODULE_ADDRESS) configured
    photonResponds, \* does the Photon API answer the requests it receives
    reports,      \* referee: duel_id -> PnlReport[]
    calls,        \* referee: bag of the reportPnlForDuel invocations that are awaiting
    userActivity, \* leaderboard: the UserActivity records, in insertion order
    lastResetDate,\* leaderboard: UTC date of the last daily reset
    today,        \* the backend's current UTC date
    photon,       \* bag of the campaign events sent to Photon
    lastHttp,     \* the last response of POST /duels/:id/report-pnl
    nReports,     \* report-pnl requests received so far
    playerStates, \* DecibelSwapService.playerStates : player -> PlayerDuelState
    swapHistory,  \* DecibelSwapService.swapHistory : every swap, in order
    clock,        \* Date.now() of the trading client, in seconds
    duelTrades,   \* the backend's journal of the duel's trades, in order
    client,       \* the TradingView component of one player: its React state,
                  \* the handleSwap in progress (pc, trade), the report-pnl
                  \* requests in flight, the on-chain swaps it has made (txs)
    photonUserCache, \* photonService: the addresses with a cached Photon user
    claiming,     \* leaderboard: bag of the claimLeaderboardReward invocations
                  \* that are awaiting
    rewards,      \* bag of the reward events claimLeaderboardReward sent to Photon
    reply         \* the last response of a /leaderboard route

ledgerVars == <<next_id, duels, balances, flow>>
tradingVars == <<playerStates, swapHistory, clock, duelTrades, client>>
leaderboardStore == <<photonUserCache, claiming, rewards, reply>>
refereeStore == <<adminAccount, photonResponds, reports, calls, userActivity,
                  lastResetDate, today, photon, lastHttp, nReports, leaderboardStore>>
refereeVars == <<refereeStore, tradingVars>>
vars == <<next_id, duels, balances, now, flow, lastCall,
          adminAccount, photonResponds, reports, calls, userActivity, lastResetDate,
          today, photon, lastHttp, nReports,
          playerStates, swapHistory, clock, duelTrades, client,
          photonUserCache, claiming, rewards, reply>>

(* ------------------------------------------------------------------------ *)
(* Helpers                                                                  *)
(* ------------------------------------------------------------------------ *)
RECURSIVE SumOver(_, _)
SumOver(f, S) ==
    IF S = {} THEN 0
    ELSE LET x == CHOOSE y \in S : TRUE IN f[x] + SumOver(f, S \ {x})

Ok == [loc |-> "", code |-> 0]
Abort(loc, code) == [loc |-> loc, code |-> code]

Call(op, caller, id, winner, result, payout, fee) ==
    [op |-> op, caller |-> caller, duel_id |-> id, winner |-> winner,
     result |-> result, payout |-> payout, fee |-> fee]

\* lastCall when the last step was no transaction of the contract
NoCall == Call("none", ZERO_ADDRESS, 0, ZERO_ADDRESS, Ok, 0, 0)

NoFlow == [escrowed |-> 0, paid |-> 0, debits |-> 0, ended |-> 0, refunded |-> 0]

\* fee and payout of resolve_duel
FeeOfRoundedUp(total_pot) ==
    (total_pot * FEE_BASIS_POINTS + (BPS_DENOMINATOR - 1)) \div BPS_DENOMINATOR
FeeOf(total_pot) == (total_pot * FEE_BASIS_POINTS) \div BPS_DENOMINATOR
PayoutOf(total_pot) == total_pot - FeeOf(total_pot)

\* a u64 operation whose result does not fit the word
Overflows(x) == x > MAX_U64

\* end_time of refund_expired, and whether one of its two additions overflows
EndTime(d) == d.start_time + d.duration_secs + GRACE_PERIOD_SECS
EndTimeOverflows(d) ==
    \/ Overflows(d.start_time + d.duration_secs)
    \/ Overflows(d.start_time + d.duration_secs + GRACE_PERIOD_SECS)

Deposit(bal, to, amount) == [bal EXCEPT ![to] = @ + amount]
Withdraw(bal, from, amount) == [bal EXCEPT ![from] = @ - amount]

\* all the coins held in accounts
Held(bal) == SumOver(bal, Signers)

\* an awaiting reportPnlForDuel: where it awaits, its locals, and the result
\* of its transaction once the chain has executed it
Awaiting(pc, duelId, winner, loser, tx) ==
    [pc |-> pc, duelId |-> duelId, winner |-> winner, loser |-> loser, tx |-> tx]
At(c, pc, tx) == Awaiting(pc, c.duelId, c.winner, c.loser, tx)
NoHttp == [duelId |-> 0, status |-> 0]
NoReply == [route |-> "none", status |-> 0]

\* no trade: the argument of a handleSwap that is not running
NoTrade == [playerAddress |-> ZERO_ADDRESS, tokenIn |-> "", tokenOut |-> "",
            amountIn |-> 0, amountOut |-> 0, timestamp |-> 0, txHash |-> 0]

\* TradingView's state when the component mounts: useState(true) for
\* isGameActive, useState(false) for hasReportedPnL, no swap in progress
ClientMounted == [isGameActive |-> TRUE, hasReportedPnL |-> FALSE, reporting |-> 0,
                  pc |-> "idle", trade |-> NoTrade, txs |-> 0]

Init ==
    /\ next_id = 0
    /\ duels = << >>
    /\ balances = [a \in Signers |-> InitBalance]
    /\ now = 0
    /\ flow = << >>
    /\ lastCall = NoCall
    /\ adminAccount \in BOOLEAN
    /\ photonResponds \in BOOLEAN
    /\ reports = << >>
    /\ calls = EmptyBag
    /\ userActivity = << >>
    /\ lastResetDate = 0
    /\ today = 0
    /\ photon = EmptyBag
    /\ lastHttp = NoHttp
    /\ nReports = 0
    /\ playerStates = << >>
    /\ swapHistory = << >>
    /\ clock = 0
    /\ duelTrades = << >>
    /\ client = ClientMounted
    /\ photonUserCache = {}
    /\ claiming = EmptyBag
    /\ rewards = EmptyBag
    /\ reply = NoReply

Failed(op, caller, id, winner, res) ==
    /\ lastCall' = Call(op, caller, id, winner, res, 0, 0)
    /\ UNCHANGED <<ledgerVars, now>>

(* ------------------------------------------------------------------------ *)
(* The contract's entry functions.  A transaction is atomic: an abort       *)
(* leaves the ledger as it was.  Each *_abort operator is the chain of      *)
(* assertions of the function, in the order the code makes them: the first  *)
(* that fails is the abort of the transaction, Ok when none fails.          *)
(* ------------------------------------------------------------------------ *)
\* create_duel without its assertion on wager_amount
create_abort_any_wager(player, wager_amount) ==
    IF balances[player] < wager_amount THEN Abort("coin", EINSUFFICIENT_BALANCE)
    ELSE Ok
create_abort(player, wager_amount) ==
    IF ~(wager_amount > 0) THEN Abort("duel_arena", E_INVALID_WAGER)
    ELSE IF balances[player] < wager_amount THEN Abort("coin", EINSUFFICIENT_BALANCE)
    ELSE Ok

NewDuel(player, wager_amount, duration_secs) ==
    [player_1 |-> player,
     player_2 |-> ZERO_ADDRESS,
     wager_amount |-> wager_amount,
     duration_secs |-> duration_secs,
     start_time |-> 0,
     is_active |-> FALSE,
     is_resolved |-> FALSE,
     pot |-> wager_amount]

create_duel(player, wager_amount, duration_secs) ==
    /\ create_abort(player, wager_amount) = Ok => next_id < MaxDuels
    /\ LET res == create_abort(player, wager_amount)
           duel_id == next_id
       IN IF res # Ok
          THEN Failed("create_duel", player, duel_id, ZERO_ADDRESS, res)
          ELSE /\ next_id' = duel_id + 1
               /\ balances' = Withdraw(balances, player, wager_amount)
               /\ duels' = duels @@ (duel_id :> NewDuel(player, wager_amount, duration_secs))
               /\ flow' = flow @@ (duel_id :>
                            [NoFlow EXCEPT !.escrowed = Held(balances) - Held(balances')])
               /\ lastCall' = Call("create_duel", player, duel_id, ZERO_ADDRESS, Ok, 0, 0)
               /\ UNCHANGED now

\* join_duel without its assertions on the state of the duel
join_abort_any_state(player, duel_id) ==
    IF duel_id \notin DOMAIN duels THEN Abort("table", TABLE_NOT_FOUND)
    ELSE IF balances[player] < duels[duel_id].wager_amount
         THEN Abort("coin", EINSUFFICIENT_BALANCE)
    ELSE Ok
join_abort(player, duel_id) ==
    IF duel_id \notin DOMAIN duels THEN Abort("table", TABLE_NOT_FOUND)
    ELSE IF duels[duel_id].is_resolved THEN Abort("duel_arena", E_DUEL_ALREADY_RESOLVED)
    ELSE IF duels[duel_id].is_active THEN Abort("duel_arena", E_DUEL_NOT_ACTIVE)
    ELSE IF duels[duel_id].player_2 # ZERO_ADDRESS THEN Abort("duel_arena", E_ALREADY_IN_DUEL)
    ELSE IF balances[player] < duels[duel_id].wager_amount
         THEN Abort("coin", EINSUFFICIENT_BALANCE)
    ELSE Ok

JoinedWithoutMerge(d, player) ==
    [d EXCEPT !.player_2 = player, !.is_active = TRUE, !.start_time = now]
Joined(d, player) ==
    [d EXCEPT !.pot = @ + d.wager_amount,
              !.player_2 = player,
              !.is_active = TRUE,
              !.start_time = now]

join_duel(player, duel_id) ==
    LET res == join_abort(player, duel_id) IN
    IF res # Ok
    THEN Failed("join_duel", player, duel_id, ZERO_ADDRESS, res)
    ELSE LET d == duels[duel_id] IN
         /\ balances' = Withdraw(balances, player, d.wager_amount)
         /\ duels' = [duels EXCEPT ![duel_id] = Joined(d, player)]
         /\ flow' = [flow EXCEPT ![duel_id].escrowed =
                                   @ + (Held(balances) - Held(balances'))]
         /\ lastCall' = Call("join_duel", player, duel_id, ZERO_ADDRESS, Ok, 0, 0)
         /\ UNCHANGED <<next_id, now>>

\* resolve_duel without its two assertions on the lifecycle flags
resolve_abort_any_state(admin, duel_id, winner) ==
    IF admin # ADMIN_ADDRESS THEN Abort("duel_arena", E_NOT_ADMIN)
    ELSE IF duel_id \notin DOMAIN duels THEN Abort("table", TABLE_NOT_FOUND)
    ELSE IF ~(winner = duels[duel_id].player_1 \/ winner = duels[duel_id].player_2)
         THEN Abort("duel_arena", E_DUEL_NOT_FOUND)
    ELSE IF Overflows(duels[duel_id].pot * FEE_BASIS_POINTS)
         THEN Abort("vm", ARITHMETIC_ERROR)
    ELSE Ok
\* resolve_duel without its assertion on the signer
resolve_abort_any_signer(admin, duel_id, winner) ==
    IF duel_id \notin DOMAIN duels THEN Abort("table", TABLE_NOT_FOUND)
    ELSE IF ~duels[duel_id].is_active THEN Abort("duel_arena", E_DUEL_NOT_ACTIVE)
    ELSE IF duels[duel_id].is_resolved THEN Abort("duel_arena", E_DUEL_ALREADY_RESOLVED)
    ELSE IF ~(winner = duels[duel_id].player_1 \/ winner = duels[duel_id].player_2)
         THEN Abort("duel_arena", E_DUEL_NOT_FOUND)
    ELSE IF Overflows(duels[duel_id].pot * FEE_BASIS_POINTS)
         THEN Abort("vm", ARITHMETIC_ERROR)
    ELSE Ok
resolve_abort(admin, duel_id, winner) ==
    IF admin # ADMIN_ADDRESS THEN Abort("duel_arena", E_NOT_ADMIN)
    ELSE IF duel_id \notin DOMAIN duels THEN Abort("table", TABLE_NOT_FOUND)
    ELSE IF ~duels[duel_id].is_active THEN Abort("duel_arena", E_DUEL_NOT_ACTIVE)
    ELSE IF duels[duel_id].is_resolved THEN Abort("duel_arena", E_DUEL_ALREADY_RESOLVED)
    ELSE IF ~(winner = duels[duel_id].player_1 \/ winner = duels[duel_id].player_2)
         THEN Abort("duel_arena", E_DUEL_NOT_FOUND)
    ELSE IF Overflows(duels[duel_id].pot * FEE_BASIS_POINTS)
         THEN Abort("vm", ARITHMETIC_ERROR)
    ELSE Ok

\* a terminal duel whose start_time was cleared with the pot
ClosedResetStart(d) ==
    [d EXCEPT !.pot = 0, !.is_active = FALSE, !.is_resolved = TRUE, !.start_time = 0]
\* a terminal duel whose is_active flag was left set
ClosedStillActive(d) ==
    [d EXCEPT !.pot = 0, !.is_resolved = TRUE]
\* pot emptied, lifecycle flags of a terminal duel (resolve_duel and refund_expired)
Closed(d) ==
    [d EXCEPT !.pot = 0, !.is_active = FALSE, !.is_resolved = TRUE]

\* resolve_duel paying the winner the whole pot and the admin the fee on top
ResolvePaidFeeOnTop(bal, total_pot, winner) ==
    Deposit(Deposit(bal, winner, total_pot), ADMIN_ADDRESS, FeeOf(total_pot))
\* balances after resolve_duel pays the winner and deposits the rest with the admin
ResolvePaid(bal, total_pot, winner) ==
    Deposit(Deposit(bal, winner, PayoutOf(total_pot)),
            ADMIN_ADDRESS, total_pot - PayoutOf(total_pot))

resolve_duel(admin, duel_id, winner) ==
    LET res == resolve_abort(admin, duel_id, winner) IN
    IF res # Ok
    THEN Failed("resolve_duel", admin, duel_id, winner, res)
    ELSE LET d == duels[duel_id]
             total_pot == d.pot
         IN /\ balances' = ResolvePaid(balances, total_pot, winner)
            /\ duels' = [duels EXCEPT ![duel_id] = Closed(d)]
            /\ flow' = [flow EXCEPT ![duel_id].paid =
                                      @ + (Held(balances') - Held(balances)),
                                    ![duel_id].debits = @ + 1,
                                    ![duel_id].ended = @ + 1]
            /\ lastCall' = Call("resolve_duel", admin, duel_id, winner, Ok,
                                PayoutOf(total_pot), FeeOf(total_pot))
            /\ UNCHANGED <<next_id, now>>

\* refund_expired with now >= end_time
refund_abort_at_end_time(duel_id) ==
    IF duel_id \notin DOMAIN duels THEN Abort("table", TABLE_NOT_FOUND)
    ELSE IF ~duels[duel_id].is_active THEN Abort("duel_arena", E_DUEL_NOT_ACTIVE)
    ELSE IF duels[duel_id].is_resolved THEN Abort("duel_arena", E_DUEL_ALREADY_RESOLVED)
    ELSE IF EndTimeOverflows(duels[duel_id]) THEN Abort("vm", ARITHMETIC_ERROR)
    ELSE IF ~(now >= EndTime(duels[duel_id])) THEN Abort("duel_arena", E_DUEL_NOT_EXPIRED)
    ELSE Ok
refund_abort(duel_id) ==
    IF duel_id \notin DOMAIN duels THEN Abort("table", TABLE_NOT_FOUND)
    ELSE IF ~duels[duel_id].is_active THEN Abort("duel_arena", E_DUEL_NOT_ACTIVE)
    ELSE IF duels[duel_id].is_resolved THEN Abort("duel_arena", E_DUEL_ALREADY_RESOLVED)
    ELSE IF EndTimeOverflows(duels[duel_id]) THEN Abort("vm", ARITHMETIC_ERROR)
    ELSE IF ~(now > EndTime(duels[duel_id])) THEN Abort("duel_arena", E_DUEL_NOT_EXPIRED)
    ELSE Ok

\* refund_expired returning the whole pot to the creator
RefundPaidToCreator(bal, d) == Deposit(bal, d.player_1, d.pot)
\* balances after refund_expired empties the pot of duel d
RefundPaid(bal, d) ==
    IF d.player_2 = ZERO_ADDRESS
    THEN Deposit(bal, d.player_1, d.pot)
    ELSE Deposit(Deposit(bal, d.player_1, d.wager_amount),
                 d.player_2, d.pot - d.wager_amount)

refund_expired(caller, duel_id) ==
    LET res == refund_abort(duel_id) IN
    IF res # Ok
    THEN Failed("refund_expired", caller, duel_id, ZERO_ADDRESS, res)
    ELSE LET d == duels[duel_id] IN
         /\ balances' = RefundPaid(balances, d)
         /\ duels' = [duels EXCEPT ![duel_id] = Closed(d)]
         /\ flow' = [flow EXCEPT ![duel_id].paid =
                                   @ + (Held(balances') - Held(balances)),
                                 ![duel_id].debits = @ + 1,
                                 ![duel_id].refunded = @ + 1]
         /\ lastCall' = Call("refund_expired", caller, duel_id, ZERO_ADDRESS, Ok, 0, 0)
         /\ UNCHANGED <<next_id, now>>

\* The chain's clock moves forward between transactions.
Tick ==
    /\ \E t \in TimePoints : t > now /\ now' = t
    /\ lastCall' = NoCall
    /\ UNCHANGED ledgerVars
    /\ UNCHANGED refereeVars

CreateDuel ==
    /\ \E p \in Signers, w \in Wagers, s \in Durations : create_duel(p, w, s)
    /\ UNCHANGED refereeVars
JoinDuel ==
    /\ \E p \in Signers, id \in DuelIds : join_duel(p, id)
    /\ UNCHANGED refereeVars
ResolveDuel ==
    /\ \E a \in Signers, id \in DuelIds, w \in Addresses : resolve_duel(a, id, w)
    /\ UNCHANGED refereeVars
RefundExpired ==
    /\ \E c \in Signers, id \in DuelIds : refund_expired(c, id)
    /\ UNCHANGED refereeVars

\* The contract alone, called directly by any account.
Next ==
    \/ CreateDuel
    \/ JoinDuel
    \/ ResolveDuel
    \/ RefundExpired
    \/ Tick

\* The backend takes no step here: its configuration is fixed.
InitContract == Init /\ adminAccount /\ photonResponds
Spec == InitContract /\ [][Next]_vars

(* ------------------------------------------------------------------------ *)
(* The backend referee: POST /duels/:id/report-pnl -> reportPnlForDuel.     *)
(* Node runs one handler at a time up to its next await; the steps below    *)
(* are those runs.                                                          *)
(* ------------------------------------------------------------------------ *)
\* playerAddress of a report-pnl request is any string of the body: the two
\* players (alice also in another letter case) and an address that is in no
\* duel
Reporters == {"alice", "ALICE", "bob", "carol"}
PnlValues == 0..MaxPnl
RefWager == 50

\* String.prototype.toLowerCase on the addresses of the model
toLowerCase(a) == IF a = "ALICE" THEN "alice" ELSE a

\* the account address a string argument of a transaction denotes
AccountOf(a) == toLowerCase(a)

\* reports[duelId].findIndex(r => lower(r.playerAddress) = lower(playerAddress)),
\* 0 when there is none
FindIndex(rs, playerAddress) ==
    LET hits == {i \in 1..Len(rs) :
                   toLowerCase(rs[i].playerAddress) = toLowerCase(playerAddress)}
    IN IF hits = {} THEN 0 ELSE CHOOSE i \in hits : \A j \in hits : i <= j

\* reports[duelId] after the report is stored (lines 60-72)
StoreReport(duelId, playerAddress, pnlPercent) ==
    LET rs == IF duelId \in DOMAIN reports THEN reports[duelId] ELSE << >>
        r == [playerAddress |-> playerAddress, pnlPercent |-> pnlPercent]
        existingIndex == FindIndex(rs, playerAddress)
    IN IF existingIndex > 0 THEN [rs EXCEPT ![existingIndex] = r]
       ELSE Append(rs, r)

\* winner and loser of two reports with different pnlPercent (lines 91-93)
WinnerOf(r1, r2) ==
    IF r1.pnlPercent > r2.pnlPercent THEN r1.playerAddress ELSE r2.playerAddress
LoserOf(r1, r2) ==
    IF WinnerOf(r1, r2) = r1.playerAddress THEN r2.playerAddress ELSE r1.playerAddress

\* delete reports[duelId]
DeleteReports(rep, duelId) == [k \in DOMAIN rep \ {duelId} |-> rep[k]]
PutReports(rep, duelId, rs) == [k \in DOMAIN rep \cup {duelId} |->
                                  IF k = duelId THEN rs ELSE rep[k]]

\* leaderboardService: userActivity is a Map, modelled as the sequence of its
\* records in insertion order (the order in which the Map is iterated); a
\* record's key is its address field. lastActivityTimestamp is written and
\* never read, and is left out.
checkAndResetDaily(ua) == IF today # lastResetDate THEN << >> ELSE ua

ActivityKeys(ua) == {ua[i].address : i \in DOMAIN ua}
ActivityIndex(ua, key) == CHOOSE i \in DOMAIN ua : ua[i].address = key

\* getUserActivity: the record of the address, created with zero counters
\* when the Map has none; the value is the Map afterwards
getUserActivity(ua, address) ==
    LET normalizedAddress == toLowerCase(address) IN
    IF normalizedAddress \in ActivityKeys(ua) THEN ua
    ELSE Append(ua, [address |-> normalizedAddress, duelsCreated |-> 0,
                     duelsJoined |-> 0, duelsWon |-> 0, totalSwaps |-> 0,
                     totalWagerAmount |-> 0])

\* trackDuelWon: daily reset, then duelsWon += 1
trackDuelWon(ua, playerAddress) ==
    LET map == getUserActivity(checkAndResetDaily(ua), playerAddress)
        i == ActivityIndex(map, toLowerCase(playerAddress))
    IN [map EXCEPT ![i].duelsWon = @ + 1]

\* the request trackCampaignEvent sends
CampaignEvent(eventType, userId, duelId) ==
    [event_type |-> eventType, user_id |-> userId, duelId |-> duelId]

One(x) == SetToBag({x})
CallsAt(pc) == {c \in BagToSet(calls) : c.pc = pc}

\* reportPnlForDuel from its entry to its first await (lines 55-112), or to
\* its return when fewer than two reports are stored or the two tie.
ReportPnl(duelId, playerAddress, pnlPercent) ==
    /\ nReports < MaxReports
    /\ nReports' = nReports + 1
    /\ lastCall' = NoCall
    /\ UNCHANGED <<ledgerVars, now, adminAccount, photonResponds, leaderboardStore, tradingVars, today>>
    /\ LET rs == StoreReport(duelId, playerAddress, pnlPercent) IN
       IF Len(rs) < 2
       THEN /\ reports' = PutReports(reports, duelId, rs)
            /\ lastHttp' = [duelId |-> duelId, status |-> 200]
            /\ UNCHANGED <<calls, userActivity, lastResetDate, photon>>
       ELSE IF rs[1].pnlPercent = rs[2].pnlPercent
       THEN /\ reports' = DeleteReports(reports, duelId)
            /\ lastHttp' = [duelId |-> duelId, status |-> 200]
            /\ UNCHANGED <<calls, userActivity, lastResetDate, photon>>
       ELSE /\ BagCardinality(calls) < MaxCalls
            /\ LET winner == WinnerOf(rs[1], rs[2])
                   loser == LoserOf(rs[1], rs[2])
               IN /\ reports' = PutReports(reports, duelId, rs)
                  /\ userActivity' = trackDuelWon(userActivity, winner)
                  /\ lastResetDate' = today
                  /\ photon' = photon (+) One(CampaignEvent("duel_won", winner, duelId))
                  /\ calls' = calls (+) One(Awaiting("won", duelId, winner, loser, Ok))
                  /\ UNCHANGED lastHttp

\* what fetch gives trackCampaignEvent: a response with the expected
\* structure, a response that is not ok, one with another structure, or an
\* exception
PhotonResponses == {"ok", "http_error", "bad_structure", "exception"}
PhotonResult == [loc |-> "photon", code |-> 0]
PhotonNull == [loc |-> "photon", code |-> -1]

\* trackCampaignEvent: the event's result, or null for every failure
trackCampaignEvent(response) ==
    IF response = "ok" THEN PhotonResult ELSE PhotonNull

PhotonCall(duelId, userId, result) ==
    Call("trackCampaignEvent", ZERO_ADDRESS, duelId, userId, result, 0, 0)

\* reportPnlForDuel failing when trackCampaignEvent returns null
WonReturnedOrFailed(c, r) ==
    /\ c.pc = "won"
    /\ photonResponds
    /\ lastCall' = PhotonCall(c.duelId, c.winner, r)
    /\ UNCHANGED <<ledgerVars, now, adminAccount, photonResponds, leaderboardStore, tradingVars, reports,
                   userActivity, lastResetDate, today, nReports>>
    /\ IF r = PhotonNull
       THEN /\ calls' = calls (-) One(c)
            /\ lastHttp' = [duelId |-> c.duelId, status |-> 500]
            /\ UNCHANGED photon
       ELSE /\ photon' = photon (+) One(CampaignEvent("duel_lost", c.loser, c.duelId))
            /\ calls' = (calls (-) One(c)) (+) One(At(c, "lost", Ok))
            /\ UNCHANGED lastHttp

\* the first trackCampaignEvent returns r (a result or null, which the
\* caller does not look at): the duel_lost event is sent (lines 114-120)
WonReturned(c, r) ==
    /\ c.pc = "won"
    /\ photonResponds
    /\ photon' = photon (+) One(CampaignEvent("duel_lost", c.loser, c.duelId))
    /\ calls' = (calls (-) One(c)) (+) One(At(c, "lost", Ok))
    /\ lastCall' = PhotonCall(c.duelId, c.winner, r)
    /\ UNCHANGED <<ledgerVars, now, adminAccount, photonResponds, leaderboardStore, tradingVars, reports,
                   userActivity, lastResetDate, today, lastHttp, nReports>>

WonSettled(c) ==
    \E response \in PhotonResponses : WonReturned(c, trackCampaignEvent(response))

\* the second trackCampaignEvent returns r: without an admin account the
\* resolution is mocked and the reports are cleared (lines 149-154), with
\* one the transaction is built and submitted (lines 127-140)
LostReturned(c, r) ==
    /\ c.pc = "lost"
    /\ photonResponds
    /\ lastCall' = PhotonCall(c.duelId, c.loser, r)
    /\ UNCHANGED <<ledgerVars, now, adminAccount, photonResponds, leaderboardStore, tradingVars, userActivity,
                   lastResetDate, today, photon, nReports>>
    /\ IF adminAccount
       THEN /\ calls' = (calls (-) One(c)) (+) One(At(c, "submit", Ok))
            /\ UNCHANGED <<reports, lastHttp>>
       ELSE /\ calls' = calls (-) One(c)
            /\ reports' = DeleteReports(reports, c.duelId)
            /\ lastHttp' = [duelId |-> c.duelId, status |-> 200]

LostSettled(c) ==
    \E response \in PhotonResponses : LostReturned(c, trackCampaignEvent(response))

\* build.simple or signAndSubmitTransaction rejects (node unreachable, stale
\* sequence number): the error is rethrown (lines 145-148) and the route
\* answers 500; the reports stay.
SubmitFailed(c) ==
    /\ c.pc = "submit"
    /\ calls' = calls (-) One(c)
    /\ lastHttp' = [duelId |-> c.duelId, status |-> 500]
    /\ lastCall' = NoCall
    /\ UNCHANGED <<ledgerVars, now, adminAccount, photonResponds, leaderboardStore, tradingVars, reports, userActivity,
                   lastResetDate, today, photon, nReports>>

\* the chain executes the submitted resolve_duel(duel_id, winner), signed by
\* the admin account
ChainExecutes(c) ==
    /\ c.pc = "submit"
    /\ resolve_duel(ADMIN_ADDRESS, c.duelId, AccountOf(c.winner))
    /\ calls' = (calls (-) One(c)) (+) One(At(c, "wait", lastCall'.result))
    /\ UNCHANGED <<adminAccount, photonResponds, leaderboardStore, tradingVars, reports, userActivity, lastResetDate, today,
                   photon, lastHttp, nReports>>

\* waitForTransaction returns and the reports are cleared whatever the
\* transaction did
WaitSettledClearing(c) ==
    /\ c.pc = "wait"
    /\ calls' = calls (-) One(c)
    /\ lastCall' = NoCall
    /\ UNCHANGED <<ledgerVars, now, adminAccount, photonResponds, leaderboardStore, tradingVars, userActivity, lastResetDate,
                   today, photon, nReports>>
    /\ reports' = DeleteReports(reports, c.duelId)
    /\ lastHttp' = [duelId |-> c.duelId, status |-> IF c.tx = Ok THEN 200 ELSE 500]

\* waitForTransaction returns (lines 142-154): a committed transaction clears
\* the reports, an aborted one is rethrown and the route answers 500
WaitSettled(c) ==
    /\ c.pc = "wait"
    /\ calls' = calls (-) One(c)
    /\ lastCall' = NoCall
    /\ UNCHANGED <<ledgerVars, now, adminAccount, photonResponds, leaderboardStore, tradingVars, userActivity, lastResetDate,
                   today, photon, nReports>>
    /\ IF c.tx = Ok
       THEN /\ reports' = DeleteReports(reports, c.duelId)
            /\ lastHttp' = [duelId |-> c.duelId, status |-> 200]
       ELSE /\ lastHttp' = [duelId |-> c.duelId, status |-> 500]
            /\ UNCHANGED reports

\* midnight UTC passes on the backend's clock
Midnight ==
    /\ today < MaxDay
    /\ today' = today + 1
    /\ lastCall' = NoCall
    /\ UNCHANGED <<ledgerVars, now, adminAccount, photonResponds, leaderboardStore, tradingVars, reports, calls, userActivity,
                   lastResetDate, photon, lastHttp, nReports>>

\* The chain traffic of the referee's runs: alice creates a duel, bob joins
\* it, the admin resolves it by hand, bob refunds it.  These runs make the
\* calls that go through; the calls that abort are the subject of Spec.
PlayerCreates ==
    /\ create_abort("alice", RefWager) = Ok
    /\ create_duel("alice", RefWager, 0)
    /\ UNCHANGED refereeVars
PlayerJoins ==
    /\ join_abort("bob", 0) = Ok
    /\ join_duel("bob", 0)
    /\ UNCHANGED refereeVars
AdminResolves ==
    /\ \E w \in {"alice", "bob"} :
          /\ resolve_abort(ADMIN_ADDRESS, 0, w) = Ok
          /\ resolve_duel(ADMIN_ADDRESS, 0, w)
    /\ UNCHANGED refereeVars
AnyoneRefunds ==
    /\ refund_abort(0) = Ok
    /\ refund_expired("bob", 0)
    /\ UNCHANGED refereeVars
Report == \E id \in 0..(MaxDuels - 1), p \in Reporters, v \in PnlValues : ReportPnl(id, p, v)

NextReferee ==
    \/ PlayerCreates
    \/ PlayerJoins
    \/ AdminResolves
    \/ AnyoneRefunds
    \/ Tick
    \/ Midnight
    \/ Report
    \/ \E c \in CallsAt("won") : WonSettled(c)
    \/ \E c \in CallsAt("lost") : LostSettled(c)
    \/ \E c \in CallsAt("submit") : SubmitFailed(c)
    \/ \E c \in CallsAt("submit") : ChainExecutes(c)
    \/ \E c \in CallsAt("wait") : WaitSettled(c)

SpecReferee == Init /\ [][NextReferee]_vars

(* ------------------------------------------------------------------------ *)
(* Properties of the escrow contract                                        *)
(* ------------------------------------------------------------------------ *)
TotalSupply == InitBalance * Cardinality(Signers)
Pots == [id \in DOMAIN duels |-> duels[id].pot]

IsCreated(d) == ~d.is_active /\ ~d.is_resolved
IsActive(d) == d.is_active
IsTerminal(d) == d.is_resolved

\* the step is a transaction calling op on an existing duel
Called(op) ==
    /\ lastCall'.op = op
    /\ lastCall'.duel_id \in DOMAIN duels

\* C1: escrow conservation.  Each duel's pot is what was withdrawn from
\* accounts into it minus what was deposited back from it, and the coins in
\* accounts plus the coins in pots are the coins there were at the start.
EscrowConservation ==
    /\ \A id \in DOMAIN duels : duels[id].pot = flow[id].escrowed - flow[id].paid
    /\ Held(balances) + SumOver(Pots, DOMAIN duels) = TotalSupply

\* a failing call made after a duel's pot was escrowed twice and paid out
EscrowConservationWitness ==
    /\ lastCall.result # Ok
    /\ \E id \in DOMAIN duels :
          /\ flow[id].paid > 0
          /\ flow[id].escrowed = 2 * duels[id].wager_amount

\* C2: pot is wager_amount while Created, 2 * wager_amount while Active and
\* 0 once the duel is resolved or refunded.
PotByState ==
    \A id \in DOMAIN duels :
        LET d == duels[id] IN
        /\ IsCreated(d) => d.pot = d.wager_amount
        /\ IsActive(d) => d.pot = 2 * d.wager_amount
        /\ IsTerminal(d) => d.pot = 0

PotByStateWitness ==
    \E id \in DOMAIN duels :
        /\ IsTerminal(duels[id])
        /\ flow[id].paid = 2 * duels[id].wager_amount

\* C3: whatever the interleaving of reportPnlForDuel invocations, their
\* transactions and direct resolve_duel / refund_expired calls, resolve_duel
\* succeeds at most once per duel and the pot is emptied at most once.
SettledAtMostOnce ==
    \A id \in DOMAIN duels :
        /\ flow[id].ended <= 1
        /\ flow[id].debits <= 1

\* two reportPnlForDuel invocations have had their resolve_duel executed for
\* the same duel: one committed, the other aborted
SettledAtMostOnceWitness ==
    \E c1 \in CallsAt("wait"), c2 \in CallsAt("wait") :
        /\ c1.duelId = c2.duelId
        /\ c1.tx = Ok
        /\ c2.tx # Ok
        /\ c1.duelId \in DOMAIN duels
        /\ flow[c1.duelId].ended = 1

\* C4 (as claimed): resolve_duel by the admin on a duel that is already
\* resolved fails with E_DUEL_ALREADY_RESOLVED.
SecondResolveAlreadyResolved ==
    ( /\ lastCall.op = "resolve_duel"
      /\ lastCall.caller = ADMIN_ADDRESS
      /\ lastCall.result # Ok
      /\ lastCall.duel_id \in DOMAIN duels
      /\ duels[lastCall.duel_id].is_resolved )
    => lastCall.result = Abort("duel_arena", E_DUEL_ALREADY_RESOLVED)

\* C5: a duel becomes terminal at most once, by exactly one of resolve_duel
\* and refund_expired; from then on the duel record never changes and every
\* join_duel, resolve_duel and refund_expired on it fails.
TerminalOnce ==
    /\ [](\A id \in DOMAIN duels :
            /\ flow[id].ended + flow[id].refunded <= 1
            /\ duels[id].is_resolved <=> (flow[id].ended + flow[id].refunded = 1)
            /\ duels[id].is_resolved => ~duels[id].is_active)
    /\ [][\A id \in DOMAIN duels :
            duels[id].is_resolved =>
              /\ duels'[id] = duels[id]
              /\ flow'[id] = flow[id]
              /\ ( /\ lastCall'.duel_id = id
                   /\ lastCall'.op \in {"join_duel", "resolve_duel", "refund_expired"} )
                 => (lastCall'.result # Ok /\ UNCHANGED ledgerVars)]_vars

\* a call on a terminal duel has just failed
TerminalOnceWitness ==
    /\ lastCall.op \in {"join_duel", "resolve_duel", "refund_expired"}
    /\ lastCall.result # Ok
    /\ lastCall.duel_id \in DOMAIN duels
    /\ duels[lastCall.duel_id].is_resolved

\* C6: a successful resolve_duel on a pot P pays P - floor(P * 100 / 10000)
\* to the winner and floor(P * 100 / 10000) to the admin address, and the
\* two add up to P.
FeeSplit ==
    [][(Called("resolve_duel") /\ lastCall'.result = Ok) =>
          LET P == duels[lastCall'.duel_id].pot
              fee == (P * 100) \div 10000
              payout == P - fee
              w == lastCall'.winner
          IN /\ lastCall'.payout = payout
             /\ lastCall'.fee = fee
             /\ lastCall'.payout + lastCall'.fee = P
             /\ P > 0
             /\ balances' = [a \in Signers |->
                               balances[a]
                               + (IF a = w THEN payout ELSE 0)
                               + (IF a = ADMIN_ADDRESS THEN fee ELSE 0)]
             /\ duels'[lastCall'.duel_id].pot = 0]_vars

\* a resolve_duel has paid a winner other than the admin, with a fee that is
\* the floor of a fraction (pot 150: fee 1, payout 149)
FeeSplitWitness ==
    /\ lastCall.op = "resolve_duel"
    /\ lastCall.result = Ok
    /\ lastCall.winner # ADMIN_ADDRESS
    /\ lastCall.fee = 1
    /\ lastCall.payout = 149

\* C7: a successful refund_expired on a duel with two participants deposits
\* wager_amount with player_1 and wager_amount with player_2 and leaves the
\* pot at 0.
RefundBoth ==
    [][( /\ Called("refund_expired")
         /\ lastCall'.result = Ok
         /\ duels[lastCall'.duel_id].player_2 # ZERO_ADDRESS ) =>
          LET d == duels[lastCall'.duel_id] IN
          /\ balances' = [a \in Signers |->
                            balances[a]
                            + (IF a = d.player_1 THEN d.wager_amount ELSE 0)
                            + (IF a = d.player_2 THEN d.wager_amount ELSE 0)]
          /\ duels'[lastCall'.duel_id].pot = 0]_vars

RefundBothWitness ==
    /\ lastCall.op = "refund_expired"
    /\ lastCall.result = Ok
    /\ duels[lastCall.duel_id].player_2 # ZERO_ADDRESS
    /\ duels[lastCall.duel_id].player_2 # duels[lastCall.duel_id].player_1

\* C8 (as claimed): refund_expired on a duel nobody joined succeeds once the
\* duel has expired.
RefundNeverJoined ==
    ( /\ lastCall.op = "refund_expired"
      /\ lastCall.duel_id \in DOMAIN duels
      /\ duels[lastCall.duel_id].player_2 = ZERO_ADDRESS
      /\ now > duels[lastCall.duel_id].start_time
               + duels[lastCall.duel_id].duration_secs + 60 )
    => lastCall.result = Ok

ResolveAuthorized ==
    [][lastCall'.op = "resolve_duel" =>
          /\ lastCall'.result = Ok =>
                /\ lastCall'.caller = ADMIN_ADDRESS
                /\ lastCall'.duel_id \in DOMAIN duels
                /\ duels[lastCall'.duel_id].is_active
          /\ lastCall'.caller # ADMIN_ADDRESS =>
                /\ lastCall'.result = Abort("duel_arena", E_NOT_ADMIN)
                /\ UNCHANGED ledgerVars]_vars

\* a participant of an Active duel has just tried to resolve it in their own
\* favour
ResolveAuthorizedWitness ==
    /\ lastCall.op = "resolve_duel"
    /\ lastCall.caller # ADMIN_ADDRESS
    /\ lastCall.duel_id \in DOMAIN duels
    /\ duels[lastCall.duel_id].is_active
    /\ lastCall.winner = lastCall.caller
    /\ lastCall.caller = duels[lastCall.duel_id].player_1
    /\ lastCall.result = Abort("duel_arena", E_NOT_ADMIN)

\* C11 (as claimed): resolve_duel by the admin on an Active duel with a
\* winner that is neither player_1 nor player_2 fails with an error of its
\* own for the invalid winner (not the contract's duel-not-found error).
InvalidWinnerError ==
    ( /\ lastCall.op = "resolve_duel"
      /\ lastCall.caller = ADMIN_ADDRESS
      /\ lastCall.duel_id \in DOMAIN duels
      /\ duels[lastCall.duel_id].is_active
      /\ lastCall.winner \notin {duels[lastCall.duel_id].player_1,
                                 duels[lastCall.duel_id].player_2} )
    => /\ lastCall.result # Ok
       /\ lastCall.result.code # E_DUEL_NOT_FOUND

\* C12: create_duel with wager_amount <= 0 fails with E_INVALID_WAGER, and a
\* create_duel or join_duel that fails (invalid wager, duel in the wrong
\* state, balance below the wager) moves no coins, creates and alters no
\* duel and leaves next_id as it was.
FailedEntryNoEffect ==
    [][/\ \A p \in Signers, w \in Wagers, s \in Durations :
              (w <= 0 /\ create_duel(p, w, s)) =>
                  lastCall'.result = Abort("duel_arena", E_INVALID_WAGER)
       /\ ( /\ lastCall'.op \in {"create_duel", "join_duel"}
            /\ lastCall'.result # Ok )
          => /\ balances' = balances
             /\ duels' = duels
             /\ next_id' = next_id
             /\ flow' = flow]_vars

\* create_duel with wager_amount = 0 has just failed while another duel
\* holds a pot
FailedEntryNoEffectWitness ==
    /\ lastCall.op = "create_duel"
    /\ lastCall.result = Abort("duel_arena", E_INVALID_WAGER)
    /\ \E id \in DOMAIN duels : duels[id].pot > 0

\* C13 (as claimed): join_duel by the creator of the duel is rejected, so no
\* duel ever has player_2 = player_1.
NoSelfJoin ==
    \A id \in DOMAIN duels : duels[id].player_2 # duels[id].player_1

\* the aborts by which join_duel refuses a duel that cannot be joined
DuelNotJoinable ==
    {Abort("duel_arena", E_DUEL_ALREADY_RESOLVED),
     Abort("duel_arena", E_DUEL_NOT_ACTIVE),
     Abort("duel_arena", E_ALREADY_IN_DUEL)}

\* C14: join_duel succeeds only on an existing duel that is Created and has
\* no player_2; a successful join_duel withdraws exactly wager_amount from
\* the joiner into the pot, sets player_2 to the joiner, makes the duel
\* Active and sets start_time to now.  Of two joiners of one duel the second
\* to execute fails as not joinable and moves no coins.
JoinOnce ==
    [][lastCall'.op = "join_duel" =>
          LET id == lastCall'.duel_id
              p == lastCall'.caller
          IN /\ lastCall'.result = Ok =>
                   /\ id \in DOMAIN duels
                   /\ IsCreated(duels[id])
                   /\ duels[id].player_2 = ZERO_ADDRESS
                   /\ balances' = [a \in Signers |->
                                     balances[a] - (IF a = p THEN duels[id].wager_amount
                                                    ELSE 0)]
                   /\ duels' = [duels EXCEPT ![id] =
                                  [duels[id] EXCEPT !.pot = duels[id].pot + duels[id].wager_amount,
                                                    !.player_2 = p,
                                                    !.is_active = TRUE,
                                                    !.start_time = now]]
             /\ ( /\ id \in DOMAIN duels
                  /\ ~(IsCreated(duels[id]) /\ duels[id].player_2 = ZERO_ADDRESS) )
                => /\ lastCall'.result \in DuelNotJoinable
                   /\ UNCHANGED ledgerVars
             /\ id \notin DOMAIN duels => lastCall'.result # Ok]_vars

\* a second joiner has just been refused on a duel another account joined
\* at a later time than the duel was created
JoinOnceWitness ==
    /\ lastCall.op = "join_duel"
    /\ lastCall.result \in DuelNotJoinable
    /\ lastCall.duel_id \in DOMAIN duels
    /\ LET d == duels[lastCall.duel_id] IN
          /\ d.is_active
          /\ d.start_time > 0
          /\ d.player_2 # d.player_1
          /\ lastCall.caller \notin {d.player_1, d.player_2}

(* ------------------------------------------------------------------------ *)
(* Properties of the referee                                                *)
(* ------------------------------------------------------------------------ *)
\* C15 (as claimed): a report that leaves two stored reports with equal
\* pnlPercent starts the settlement of the duel for a tie-break participant;
\* the reports are not dropped with the duel left unresolved.
TieSettles ==
    [][\A id \in 0..(MaxDuels - 1), p \in Reporters, v \in PnlValues :
          ( /\ ReportPnl(id, p, v)
            /\ Len(StoreReport(id, p, v)) >= 2
            /\ StoreReport(id, p, v)[1].pnlPercent = StoreReport(id, p, v)[2].pnlPercent )
          => \E c \in BagToSet(calls') :
                /\ c.duelId = id
                /\ CopiesIn(c, calls') > CopiesIn(c, calls)]_vars

\* C16 (as claimed): the winner of every resolve_duel that reportPnlForDuel
\* submits for a duel is the participant of that duel whose pnlPercent is
\* strictly greater than the other participant's: in particular, for a duel
\* that has two players, it is player_1 or player_2 of the duel.
SubmittedWinnerIsParticipant ==
    \A c \in CallsAt("wait") :
        ( /\ c.duelId \in DOMAIN duels
          /\ duels[c.duelId].player_2 # ZERO_ADDRESS )
        => AccountOf(c.winner) \in {duels[c.duelId].player_1, duels[c.duelId].player_2}

\* C17 (as claimed): a reportPnlForDuel whose resolve_duel reached the chain
\* after the duel was already resolved answers its caller with success.
LateResolveSucceeds ==
    [][\A c \in CallsAt("wait") :
          ( /\ WaitSettled(c)
            /\ c.tx # Ok
            /\ c.duelId \in DOMAIN duels
            /\ duels[c.duelId].is_resolved )
          => lastHttp' = [duelId |-> c.duelId, status |-> 200]]_vars

\* C18: a resolution attempt that fails (the submission is rejected, or
\* resolve_duel aborts) changes nothing on the ledger, so an Active duel
\* stays Active with its pot of 2 * wager_amount; the stored reports are
\* kept, the route answers 500, and the next report for the duel that leaves
\* two different values starts a new attempt.
FailedResolveRetryable ==
    [][/\ \A c \in CallsAt("submit") :
             (SubmitFailed(c) \/ (ChainExecutes(c) /\ lastCall'.result # Ok)) =>
                 /\ UNCHANGED ledgerVars
                 /\ reports' = reports
                 /\ (c.duelId \in DOMAIN duels /\ duels[c.duelId].is_active) =>
                        /\ duels'[c.duelId].is_active
                        /\ ~duels'[c.duelId].is_resolved
                        /\ duels'[c.duelId].pot = 2 * duels[c.duelId].wager_amount
       /\ \A c \in CallsAt("wait") :
             (WaitSettled(c) /\ c.tx # Ok) =>
                 /\ UNCHANGED ledgerVars
                 /\ reports' = reports
                 /\ lastHttp' = [duelId |-> c.duelId, status |-> 500]
       /\ \A id \in 0..(MaxDuels - 1), p \in Reporters, v \in PnlValues :
             ( /\ ReportPnl(id, p, v)
               /\ id \in DOMAIN reports
               /\ Len(reports[id]) >= 2
               /\ StoreReport(id, p, v)[1].pnlPercent # StoreReport(id, p, v)[2].pnlPercent )
             => \E c \in CallsAt("won")' :
                   /\ c.duelId = id
                   /\ CopiesIn(c, calls') > CopiesIn(c, calls)]_vars

\* an attempt has failed and none is in flight: the duel is Active with its
\* full pot, the two reports are still stored and one more can be received
FailedResolveRetryableWitness ==
    /\ calls = EmptyBag
    /\ lastHttp.status = 500
    /\ lastHttp.duelId \in DOMAIN duels
    /\ duels[lastHttp.duelId].is_active
    /\ duels[lastHttp.duelId].pot = 2 * duels[lastHttp.duelId].wager_amount
    /\ lastHttp.duelId \in DOMAIN reports
    /\ Len(reports[lastHttp.duelId]) = 2
    /\ nReports < MaxReports

\* C19: when trackCampaignEvent fails (returns null for a response that is
\* not ok, a response of another structure or an exception of fetch),
\* reportPnlForDuel neither fails nor skips the settlement: it goes on to
\* its next step exactly as after a result, the route does not answer 500,
\* and the event that failed is not sent again.
NotificationFailureIgnored ==
    [][( /\ lastCall'.op = "trackCampaignEvent"
         /\ lastCall'.result = PhotonNull ) =>
          /\ UNCHANGED <<ledgerVars, userActivity>>
          /\ \E c \in CallsAt("won") \cup CallsAt("lost") :
                LET sent == CampaignEvent(IF c.pc = "won" THEN "duel_won" ELSE "duel_lost",
                                          lastCall'.winner, c.duelId)
                IN /\ c.duelId = lastCall'.duel_id
                   /\ CopiesIn(sent, photon') = CopiesIn(sent, photon)
                   /\ BagCardinality(photon') <= BagCardinality(photon) + 1
                   /\ IF c.pc = "won"
                      THEN /\ calls' = (calls (-) One(c)) (+) One(At(c, "lost", Ok))
                           /\ UNCHANGED <<lastHttp, reports>>
                      ELSE IF adminAccount
                      THEN /\ calls' = (calls (-) One(c)) (+) One(At(c, "submit", Ok))
                           /\ UNCHANGED <<lastHttp, reports>>
                      ELSE /\ calls' = calls (-) One(c)
                           /\ lastHttp' = [duelId |-> c.duelId, status |-> 200]]_vars

\* both notifications of a duel have been sent, the second has just failed
\* and the invocation is about to submit resolve_duel for an Active duel
NotificationFailureIgnoredWitness ==
    /\ lastCall.op = "trackCampaignEvent"
    /\ lastCall.result = PhotonNull
    /\ \E c \in CallsAt("submit") :
          /\ c.duelId = lastCall.duel_id
          /\ c.loser = lastCall.winner
          /\ c.duelId \in DOMAIN duels
          /\ duels[c.duelId].is_active
          /\ CopiesIn(CampaignEvent("duel_lost", c.loser, c.duelId), photon) = 1

\* C20 (as claimed): settlement is never blocked waiting on a notification.
\* An invocation of reportPnlForDuel that has two differing reports and has
\* not submitted resolve_duel yet can always take its next step, also when
\* Photon never answers.
NeverBlockedOnNotification ==
    \A c \in CallsAt("won") \cup CallsAt("lost") :
        ENABLED (WonSettled(c) \/ LostSettled(c))

\* C21 (as claimed): a duel_won or duel_lost event is sent to Photon only
\* for a duel on which resolve_duel has succeeded.
NotifiedOnlyAfterSettlement ==
    \A e \in BagToSet(photon) :
        /\ e.duelId \in DOMAIN duels
        /\ flow[e.duelId].ended >= 1

\* C22 (as claimed): the winner reportPnlForDuel settles a duel with does
\* not depend on the pnlPercent values posted to it: had the same two
\* addresses posted any other two different values, the same winner would
\* have been chosen.
WinnerIndependentOfPosted ==
    \A c \in BagToSet(calls) :
        \A v1 \in PnlValues, v2 \in PnlValues :
            v1 # v2 =>
                WinnerOf([playerAddress |-> c.winner, pnlPercent |-> v1],
                         [playerAddress |-> c.loser, pnlPercent |-> v2]) = c.winner

(* ------------------------------------------------------------------------ *)
(* DecibelSwapService: the mock swaps and P&L of the trading client         *)
(*                                                                          *)
(* Numbers are fixed point: USD values in cents, prices in cents per whole  *)
(* token, token amounts in base units (UnitOf base units to the token),     *)
(* pnlPercent in hundredths of a percent.                                   *)
(* ------------------------------------------------------------------------ *)

\* the tokens the client trades (TradingView offers APT and zUSDC)
SUPPORTED_TOKENS == {"APT", "zUSDC"}
\* Math.pow(10, token.decimals), scaled down from 10^8 and 10^6
UnitOf == [APT |-> 1000, zUSDC |-> 100]
MOCK_PRICES == [APT |-> 850, zUSDC |-> 100]
PRICE_VOLATILITY == 2
SWAP_FEE_BPS == 30
PercentScale == 10000

\* the values of (Math.random() - 0.5) * 2 * PRICE_VOLATILITY, in percent
Volatilities == {-PRICE_VOLATILITY, PRICE_VOLATILITY}

\* getCurrentPrice when Math.random() gives the volatility v
PriceAt(tokenSymbol, v) == (MOCK_PRICES[tokenSymbol] * (100 + v)) \div 100
\* one draw of Math.random() for every token
PriceDraws == [SUPPORTED_TOKENS -> Volatilities]
getCurrentPrice(draw) == [t \in SUPPORTED_TOKENS |-> PriceAt(t, draw[t])]

\* calculateSwapOutput, in base units of the token bought
calculateSwapOutput(amountIn, unitIn, unitOut, priceIn, priceOut) ==
    LET valueInUSD == (amountIn * priceIn) \div unitIn
        feeUSD == (valueInUSD * SWAP_FEE_BPS) \div BPS_DENOMINATOR
        valueAfterFee == valueInUSD - feeUSD
    IN (valueAfterFee * unitOut) \div priceOut

\* the sum of the swaps' pnlUSD
RECURSIVE RealizedPnL(_)
RealizedPnL(history) ==
    IF history = << >> THEN 0
    ELSE Head(history).pnlUSD + RealizedPnL(Tail(history))

\* the unrealized P&L updatePlayerPnL computes, one getCurrentPrice per position
UnrealizedPnL(state, price) ==
    LET held == DOMAIN state.currentPositions
        gain == [t \in held |->
                    (state.currentPositions[t].amount * price[t]) \div UnitOf[t]
                    - state.currentPositions[t].totalCostUSD]
    IN SumOver(gain, held)

updatePlayerPnL(state, price) ==
    LET total == RealizedPnL(state.swapHistory) + UnrealizedPnL(state, price)
    IN [state EXCEPT !.totalPnLUSD = total,
                     !.pnlPercent = IF state.initialBalanceUSD > 0
                                    THEN (total * PercentScale) \div state.initialBalanceUSD
                                    ELSE 0]

\* the argument initialAptBalance when the caller leaves it out
NoAptBalance == -1

\* the state initializePlayer stores: the whole balance as an APT position
NewPlayerState(playerAddress, initialBalanceUSD, initialAptBalance, price) ==
    LET withApt == initialAptBalance # NoAptBalance
        aptAmountBaseUnits ==
            IF withApt THEN initialAptBalance * UnitOf["APT"]
            ELSE (initialBalanceUSD * UnitOf["APT"]) \div price["APT"]
        balanceUSD ==
            IF withApt THEN (initialAptBalance * price["APT"] * 100) \div price["zUSDC"]
            ELSE (initialBalanceUSD * 100) \div price["zUSDC"]
    IN [playerAddress |-> playerAddress,
        initialBalanceUSD |-> balanceUSD,
        currentPositions |->
            [t \in {"APT"} |-> [amount |-> aptAmountBaseUnits,
                                avgEntryPrice |-> price["APT"],
                                totalCostUSD |-> balanceUSD]],
        swapHistory |-> << >>,
        totalPnLUSD |-> 0,
        pnlPercent |-> 0]

initializePlayer(playerAddress, initialBalanceUSD, initialAptBalance) ==
    /\ \E draw \in PriceDraws :
          playerStates' = (playerAddress :> NewPlayerState(playerAddress, initialBalanceUSD,
                                                          initialAptBalance,
                                                          getCurrentPrice(draw)))
                          @@ playerStates
    /\ lastCall' = NoCall
    /\ UNCHANGED <<swapHistory, clock, duelTrades, client>>

\* what executeSwap throws
SwapError(message) == [loc |-> message, code |-> 0]
SwapCall(playerAddress, result) ==
    Call("executeSwap", playerAddress, 0, ZERO_ADDRESS, result, 0, 0)

\* executeSwap's checks that accept any amount of a token the player holds
swap_error_any_amount(states, playerAddress, tokenInSymbol, tokenOutSymbol, amountIn) ==
    IF playerAddress \notin DOMAIN states
    THEN SwapError("Player not initialized")
    ELSE IF tokenInSymbol \notin SUPPORTED_TOKENS \/ tokenOutSymbol \notin SUPPORTED_TOKENS
    THEN SwapError("Invalid token pair")
    ELSE IF tokenInSymbol \notin DOMAIN states[playerAddress].currentPositions
    THEN SwapError("Insufficient balance")
    ELSE Ok

\* executeSwap's checks, in the order of the code, on the player states states
swap_error(states, playerAddress, tokenInSymbol, tokenOutSymbol, amountIn) ==
    IF playerAddress \notin DOMAIN states
    THEN SwapError("Player not initialized")
    ELSE IF tokenInSymbol \notin SUPPORTED_TOKENS \/ tokenOutSymbol \notin SUPPORTED_TOKENS
    THEN SwapError("Invalid token pair")
    ELSE IF \/ tokenInSymbol \notin DOMAIN states[playerAddress].currentPositions
            \/ states[playerAddress].currentPositions[tokenInSymbol].amount < amountIn
    THEN SwapError("Insufficient balance")
    ELSE Ok

\* the positions after the sold amount has left; amount <= 0 deletes the position
Sold(positions, tokenIn, amountIn) ==
    IF positions[tokenIn].amount - amountIn <= 0
    THEN [t \in DOMAIN positions \ {tokenIn} |-> positions[t]]
    ELSE [positions EXCEPT ![tokenIn].amount = @ - amountIn]

\* the positions after the bought amount has arrived: weighted average entry
\* price of a position held already, else a new position
Bought(positions, tokenOut, amountOut, priceOut, valueInUSD) ==
    IF tokenOut \in DOMAIN positions
    THEN LET newAmount == positions[tokenOut].amount + amountOut
             newTotalCost == positions[tokenOut].totalCostUSD + valueInUSD
         IN [positions EXCEPT ![tokenOut] =
                [amount |-> newAmount,
                 avgEntryPrice |-> (newTotalCost * UnitOf[tokenOut]) \div newAmount,
                 totalCostUSD |-> newTotalCost]]
    ELSE (tokenOut :> [amount |-> amountOut,
                       avgEntryPrice |-> priceOut,
                       totalCostUSD |-> valueInUSD]) @@ positions

\* the Swap record of a swap made at the prices priceAt; txHash is the sixth
\* argument TradingView passes, which executeSwap does not take: it is kept
\* here as history only and no operation reads it
SwapOf(playerAddress, tokenIn, tokenOut, amountIn, priceAt, timestamp, txHash) ==
    LET valueInUSD == (amountIn * priceAt[tokenIn]) \div UnitOf[tokenIn]
        amountOut == calculateSwapOutput(amountIn, UnitOf[tokenIn], UnitOf[tokenOut],
                                         priceAt[tokenIn], priceAt[tokenOut])
        valueOutUSD == (amountOut * priceAt[tokenOut]) \div UnitOf[tokenOut]
    IN [playerAddress |-> playerAddress, timestamp |-> timestamp,
        tokenIn |-> tokenIn, tokenOut |-> tokenOut,
        amountIn |-> amountIn, amountOut |-> amountOut,
        priceOutUSD |-> priceAt[tokenOut],
        valueInUSD |-> valueInUSD, valueOutUSD |-> valueOutUSD,
        pnlUSD |-> valueOutUSD - valueInUSD, txHash |-> txHash]

\* the player's state after the swap: positions, history, then updatePlayerPnL
Swapped(state, swap, price) ==
    LET positions == Bought(Sold(state.currentPositions, swap.tokenIn, swap.amountIn),
                            swap.tokenOut, swap.amountOut, swap.priceOutUSD,
                            swap.valueInUSD)
    IN updatePlayerPnL([state EXCEPT !.currentPositions = positions,
                                     !.swapHistory = Append(@, swap)],
                       price)

\* the service's maps, and the outcome of the last executeSwap on them
Service(states, history, result) ==
    [playerStates |-> states, swapHistory |-> history, result |-> result]

\* executeSwap at the time timestamp on the service s; draws.at gives the
\* prices of the swap, draws.after those of the updatePlayerPnL that ends it
\* (separate calls of getCurrentPrice).  A throw leaves the service as it was.
Executed(s, playerAddress, tokenIn, tokenOut, amountIn, timestamp, txHash, draws) ==
    LET error == swap_error(s.playerStates, playerAddress, tokenIn, tokenOut, amountIn)
        swap == SwapOf(playerAddress, tokenIn, tokenOut, amountIn,
                       getCurrentPrice(draws.at), timestamp, txHash)
    IN IF error # Ok
       THEN Service(s.playerStates, s.swapHistory, error)
       ELSE Service([s.playerStates EXCEPT ![playerAddress] =
                        Swapped(@, swap, getCurrentPrice(draws.after))],
                    Append(s.swapHistory, swap), Ok)

SwapDraws == [at : PriceDraws, after : PriceDraws]

\* executeSwap when Math.random() gives the volatilities draws
executeSwapAt(playerAddress, tokenInSymbol, tokenOutSymbol, amountIn, txHash, draws) ==
    LET done == Executed(Service(playerStates, swapHistory, Ok), playerAddress,
                         tokenInSymbol, tokenOutSymbol, amountIn, clock, txHash, draws)
    IN /\ playerStates' = done.playerStates
       /\ swapHistory' = done.swapHistory

executeSwap(playerAddress, tokenInSymbol, tokenOutSymbol, amountIn, txHash) ==
    LET error == swap_error(playerStates, playerAddress, tokenInSymbol, tokenOutSymbol,
                            amountIn)
    IN /\ lastCall' = SwapCall(playerAddress, error)
       /\ IF error = Ok
          THEN \E draws \in SwapDraws :
                  executeSwapAt(playerAddress, tokenInSymbol, tokenOutSymbol, amountIn,
                                txHash, draws)
          ELSE UNCHANGED <<playerStates, swapHistory>>

\* getFinalPnLPercent: updatePlayerPnL, then the state's pnlPercent; 0 for a
\* player without state
getFinalPnLPercent(playerAddress) ==
    /\ lastCall' = Call("getFinalPnLPercent", playerAddress, 0, ZERO_ADDRESS, Ok, 0, 0)
    /\ IF playerAddress \in DOMAIN playerStates
       THEN \E draw \in PriceDraws :
               playerStates' = [playerStates EXCEPT ![playerAddress] =
                                   updatePlayerPnL(@, getCurrentPrice(draw))]
       ELSE UNCHANGED playerStates

\* the interval of startPriceUpdates: updatePlayerPnL for every player of
\* the duel, each position at a price of its own
priceUpdate ==
    /\ playerStates # << >>
    /\ \E draws \in [DOMAIN playerStates -> PriceDraws] :
          playerStates' = [p \in DOMAIN playerStates |->
                              updatePlayerPnL(playerStates[p], getCurrentPrice(draws[p]))]
    /\ lastCall' = NoCall

\* The service by itself, called with any arguments
MaxSwaps == 2
SwapPlayers == {"alice"}
SwapSymbols == SUPPORTED_TOKENS \cup {"DOGE"}
\* amounts sold, in base units; the callers pass positive amounts only
SwapAmounts == {5000, 10000}
\* the balance of a new player: 85 USD, or 10 APT held in the wallet
InitialBalancesUSD == {8500}
InitialAptBalances == {NoAptBalance, 10}

InitializePlayer ==
    \E p \in SwapPlayers \ DOMAIN playerStates, usd \in InitialBalancesUSD,
       apt \in InitialAptBalances :
        /\ initializePlayer(p, usd, apt)
        /\ UNCHANGED <<ledgerVars, now, refereeStore>>

ExecuteSwap ==
    \E p \in SwapPlayers, tokenIn \in SwapSymbols, tokenOut \in SwapSymbols,
       amountIn \in SwapAmounts :
        /\ swap_error(playerStates, p, tokenIn, tokenOut, amountIn) = Ok
              => Len(swapHistory) < MaxSwaps
        /\ executeSwap(p, tokenIn, tokenOut, amountIn, 0)
        /\ UNCHANGED <<ledgerVars, now, refereeStore, clock, duelTrades, client>>

GetFinalPnLPercent ==
    \E p \in SwapPlayers :
        /\ getFinalPnLPercent(p)
        /\ UNCHANGED <<ledgerVars, now, refereeStore, swapHistory, clock, duelTrades, client>>

PriceUpdate ==
    /\ priceUpdate
    /\ UNCHANGED <<ledgerVars, now, refereeStore, swapHistory, clock, duelTrades, client>>

NextSwap ==
    \/ InitializePlayer
    \/ ExecuteSwap
    \/ GetFinalPnLPercent
    \/ PriceUpdate

SpecSwap == InitContract /\ [][NextSwap]_vars

(* ------------------------------------------------------------------------ *)
(* Properties of the swap service                                           *)
(* ------------------------------------------------------------------------ *)

\* the integer divisions of this model lose less than this many cents
RoundingTolerance == 50
Within(a, b) == a - b <= RoundingTolerance /\ b - a <= RoundingTolerance
Traded(p) == p \in DOMAIN playerStates /\ playerStates[p].swapHistory # << >>
\* the value of the positions at the prices price
PortfolioValue(state, price) ==
    LET held == DOMAIN state.currentPositions
        value == [t \in held |-> (state.currentPositions[t].amount * price[t]) \div UnitOf[t]]
    IN SumOver(value, held)

\* C23 (as claimed): two P&L computations over the same baseline and the
\* same trades return the same total and the same percent.
RepeatedPnLIdentical ==
    \A p \in DOMAIN playerStates :
        \A first \in PriceDraws, second \in PriceDraws :
            LET a == updatePlayerPnL(playerStates[p], getCurrentPrice(first))
                b == updatePlayerPnL(playerStates[p], getCurrentPrice(second))
            IN a.totalPnLUSD = b.totalPnLUSD /\ a.pnlPercent = b.pnlPercent

\* C24 (as claimed): a player who has made no swap has pnlPercent = 0,
\* also after price updates and getFinalPnLPercent.
NoTradesZeroPnl ==
    \A p \in DOMAIN playerStates :
        playerStates[p].swapHistory = << >> => playerStates[p].pnlPercent = 0

\* the unrealized P&L of the positions as the claim defines it
ClaimedUnrealized(state, price) ==
    LET held == DOMAIN state.currentPositions
        gain == [t \in held |->
                    ((price[t] - state.currentPositions[t].avgEntryPrice)
                     * state.currentPositions[t].amount) \div UnitOf[t]]
    IN SumOver(gain, held)

\* C25 (as claimed): after any swaps, the unrealized P&L updatePlayerPnL
\* computes is the sum over the held positions of (current price - average
\* entry price) * held quantity.
UnrealizedMatchesPositions ==
    \A p \in DOMAIN playerStates :
        Traded(p) =>
            \A draw \in PriceDraws :
                Within(UnrealizedPnL(playerStates[p], getCurrentPrice(draw)),
                       ClaimedUnrealized(playerStates[p], getCurrentPrice(draw)))

\* C26 (as claimed): after any swaps, realized + unrealized P&L is the
\* current value of the held positions minus the baseline.
TotalMatchesPortfolio ==
    \A p \in DOMAIN playerStates :
        Traded(p) =>
            \A draw \in PriceDraws :
                Within(updatePlayerPnL(playerStates[p], getCurrentPrice(draw)).totalPnLUSD,
                       PortfolioValue(playerStates[p], getCurrentPrice(draw))
                       - playerStates[p].initialBalanceUSD)

\* C27: executeSwap of more than the player holds of tokenIn, or of a token
\* the player holds no position in, fails with "Insufficient balance" and
\* changes neither the player states nor the swap history; every position
\* held after any step has an amount above zero.
InsufficientFailsCleanly ==
    [][/\ \A p \in SwapPlayers, tokenIn \in SUPPORTED_TOKENS, tokenOut \in SUPPORTED_TOKENS,
             amountIn \in SwapAmounts :
              (/\ p \in DOMAIN playerStates
               /\ \/ tokenIn \notin DOMAIN playerStates[p].currentPositions
                  \/ playerStates[p].currentPositions[tokenIn].amount < amountIn
               /\ executeSwap(p, tokenIn, tokenOut, amountIn, 0))
              => /\ lastCall'.result = SwapError("Insufficient balance")
                 /\ UNCHANGED <<playerStates, swapHistory>>
       /\ \A p \in DOMAIN playerStates' :
              \A t \in DOMAIN playerStates'[p].currentPositions :
                  playerStates'[p].currentPositions[t].amount > 0]_vars
InsufficientFailsCleanlyWitness ==
    /\ lastCall.op = "executeSwap"
    /\ lastCall.result = SwapError("Insufficient balance")
    /\ Traded(lastCall.caller)
    /\ \E t \in SUPPORTED_TOKENS : t \notin DOMAIN playerStates[lastCall.caller].currentPositions

(* ------------------------------------------------------------------------ *)
(* The trade journal of the backend and the TradingView client              *)
(* ------------------------------------------------------------------------ *)

MaxTrades == 2
MaxReplayed == 3
MaxClientSwaps == 1
MaxClock == 2
MaxReporting == 2
\* the props of the component: the duel's start, its duration, the players
StartTime == 0
DurationSecs == 1
Player == "alice"
Opponent == "bob"
\* a trade posted without transaction hash
NoTxHash == 0
\* amounts typed into the swap form, in whole tokens
FormAmounts == {5}
\* the hash of the opponent's on-chain swap
OpponentHashes == {11}

\* a journal that inserts every trade with positive amounts, also one whose
\* txHash it holds already
recordTradeTwice(journal, trade) ==
    IF trade.amountIn <= 0 \/ trade.amountOut <= 0 THEN journal
    ELSE Append(journal, trade)

\* recordTradeForDuel: the trade is inserted unless the journal holds one
\* with the same txHash already; amounts that are not positive are rejected
recordTradeForDuel(journal, trade) ==
    IF trade.amountIn <= 0 \/ trade.amountOut <= 0 THEN journal
    ELSE IF trade.txHash # NoTxHash /\ \E i \in DOMAIN journal : journal[i].txHash = trade.txHash
    THEN journal
    ELSE Append(journal, trade)

\* getTradesForDuel: the journal in insertion order
getTradesForDuel(journal) == journal

\* POST /duels/:id/trades: 400 without playerAddress, tokenIn or tokenOut
InvalidPayload(trade) ==
    trade.playerAddress = "" \/ trade.tokenIn = "" \/ trade.tokenOut = ""
PostTradeCall(trade) ==
    Call("POST /duels/:id/trades", trade.playerAddress, 0, ZERO_ADDRESS,
         IF InvalidPayload(trade) THEN Abort("http", 400) ELSE Ok, 0, 0)
PostTrade(trade) ==
    /\ duelTrades' = IF InvalidPayload(trade) THEN duelTrades
                     ELSE recordTradeForDuel(duelTrades, trade)
    /\ lastCall' = PostTradeCall(trade)

\* Swap has no txHash field and executeSwap takes no sixth argument, so
\* s.txHash is undefined for every swap of the service
TxHashField(swap) == NoTxHash

\* syncTrades: is the journal's trade t the local swap s
SameTrade(s, t) ==
    IF t.txHash # NoTxHash /\ TxHashField(s) # NoTxHash
    THEN TxHashField(s) = t.txHash
    ELSE /\ s.timestamp = t.timestamp
         /\ s.amountIn = t.amountIn
         /\ s.tokenIn = t.tokenIn

\* trades.filter(t => !currentSwaps.some(...)), in the journal's order
MissingTrades(trades, currentSwaps) ==
    SelectSeq(trades, LAMBDA t : ~ \E k \in DOMAIN currentSwaps : SameTrade(currentSwaps[k], t))

\* missingTrades.sort by timestamp ascending (stable)
RECURSIVE Inserted(_, _)
Inserted(sorted, t) ==
    IF sorted = << >> THEN <<t>>
    ELSE IF Head(sorted).timestamp <= t.timestamp
    THEN <<Head(sorted)>> \o Inserted(Tail(sorted), t)
    ELSE <<t>> \o sorted
RECURSIVE SortedByTimestamp(_)
SortedByTimestamp(trades) ==
    IF trades = << >> THEN << >>
    ELSE Inserted(SortedByTimestamp(SubSeq(trades, 1, Len(trades) - 1)),
                  trades[Len(trades)])

\* the loop of syncTrades: executeSwap for every missing trade, with the
\* journal's amountIn as it is; a throw ends the loop (the outer catch)
RECURSIVE Replayed(_, _, _, _)
Replayed(s, trades, timestamp, draws) ==
    IF trades = << >> THEN s
    ELSE LET t == Head(trades)
             done == Executed(s, t.playerAddress, t.tokenIn, t.tokenOut, t.amountIn,
                              timestamp, t.txHash, Head(draws))
         IN IF done.result # Ok THEN done
            ELSE Replayed(done, Tail(trades), timestamp, Tail(draws))

clientStore == <<ledgerVars, now, refereeStore>>

\* The client's runs are those in which Math.random() returns the same
\* number at every call: which trades the client applies, and when, does not
\* depend on the prices.
ClientVolatilities == {-PRICE_VOLATILITY}
ClientPriceDraws == [SUPPORTED_TOKENS -> ClientVolatilities]
ClientSwapDraws == [at : ClientPriceDraws, after : ClientPriceDraws]

\* the effect that initializes both players: the player with the wallet's
\* APT balance when it is known, the opponent with the wager-based balance
PlayersInitialized ==
    /\ playerStates = << >>
    /\ \E usd \in InitialBalancesUSD, walletBalance \in InitialAptBalances,
          mine \in ClientPriceDraws, theirs \in ClientPriceDraws :
          playerStates' =
              (Player :> NewPlayerState(Player, usd, walletBalance, getCurrentPrice(mine)))
              @@ (Opponent :> NewPlayerState(Opponent, usd, NoAptBalance,
                                            getCurrentPrice(theirs)))
    /\ lastCall' = NoCall
    /\ UNCHANGED <<clientStore, swapHistory, clock, duelTrades, client>>

\* a poll of syncTrades: GET the journal, replay what is missing locally
SyncTrades ==
    LET trades == getTradesForDuel(duelTrades)
        missingTrades == SortedByTimestamp(MissingTrades(trades, swapHistory))
    IN /\ Len(swapHistory) + Len(missingTrades) <= MaxReplayed
       /\ \E draws \in [1..Len(missingTrades) -> ClientSwapDraws] :
             LET done == Replayed(Service(playerStates, swapHistory, Ok), missingTrades,
                                  clock, draws)
             IN /\ playerStates' = done.playerStates
                /\ swapHistory' = done.swapHistory
       /\ lastCall' = NoCall
       /\ UNCHANGED <<clientStore, clock, duelTrades, client>>

\* handleSwap up to its first await: its guards, then the on-chain swap starts
HandleSwapStarts ==
    /\ client.pc = "idle"
    /\ client.isGameActive
    /\ Player \in DOMAIN playerStates
    /\ client.txs < MaxClientSwaps
    /\ \E tokenIn \in SUPPORTED_TOKENS, tokenOut \in SUPPORTED_TOKENS, amount \in FormAmounts :
          /\ tokenIn # tokenOut
          /\ amount > 0
          /\ client' = [client EXCEPT !.pc = "chain",
                                      !.trade = [NoTrade EXCEPT !.playerAddress = Player,
                                                                !.tokenIn = tokenIn,
                                                                !.tokenOut = tokenOut,
                                                                !.amountIn = amount]]
    /\ lastCall' = NoCall
    /\ UNCHANGED <<clientStore, playerStates, swapHistory, clock, duelTrades>>

\* executeLiquidswapSwap returns a transaction hash, or throws and handleSwap ends
ChainSwapReturns ==
    /\ client.pc = "chain"
    /\ \E executed \in BOOLEAN :
          client' = IF executed
                    THEN [client EXCEPT !.pc = "record",
                                        !.txs = @ + 1,
                                        !.trade.amountOut = client.trade.amountIn,
                                        !.trade.timestamp = clock,
                                        !.trade.txHash = client.txs + 1]
                    ELSE [client EXCEPT !.pc = "idle", !.trade = NoTrade]
    /\ lastCall' = NoCall
    /\ UNCHANGED <<clientStore, playerStates, swapHistory, clock, duelTrades>>

\* recordDuelTrade: the backend serves the client's POST
TradeRecorded ==
    /\ client.pc = "record"
    /\ PostTrade(client.trade)
    /\ client' = [client EXCEPT !.pc = "recorded"]
    /\ UNCHANGED <<clientStore, playerStates, swapHistory, clock>>

\* recordDuelTrade has returned: handleSwap applies the swap to the local
\* service, in base units; a throw is caught and handleSwap ends as well
SwapApplied ==
    /\ client.pc = "recorded"
    /\ LET amountInBaseUnits == client.trade.amountIn * UnitOf[client.trade.tokenIn]
           error == swap_error(playerStates, Player, client.trade.tokenIn,
                               client.trade.tokenOut, amountInBaseUnits)
       IN /\ lastCall' = SwapCall(Player, error)
          /\ IF error = Ok
             THEN \E draws \in ClientSwapDraws :
                     executeSwapAt(Player, client.trade.tokenIn, client.trade.tokenOut,
                                   amountInBaseUnits, client.trade.txHash, draws)
             ELSE UNCHANGED <<playerStates, swapHistory>>
    /\ client' = [client EXCEPT !.pc = "idle", !.trade = NoTrade]
    /\ UNCHANGED <<clientStore, clock, duelTrades>>

\* the opponent's client, or anyone else, posts a trade to the journal
OpponentTrades ==
    [playerAddress : {Opponent, ""}, tokenIn : {"APT"}, tokenOut : {"zUSDC"},
     amountIn : FormAmounts, amountOut : FormAmounts, timestamp : {clock},
     txHash : OpponentHashes]
OpponentPosts ==
    /\ \E trade \in OpponentTrades :
          /\ (~ InvalidPayload(trade) /\ recordTradeForDuel(duelTrades, trade) # duelTrades)
                 => Len(duelTrades) < MaxTrades
          /\ PostTrade(trade)
    /\ UNCHANGED <<clientStore, playerStates, swapHistory, clock, client>>

\* the countdown's updateTimeRemaining once the time is up: the game is no
\* longer active, and the P&L is reported unless a report has succeeded
TimeIsUp == clock - StartTime >= DurationSecs
TimerFires ==
    /\ TimeIsUp
    /\ client' = [client EXCEPT
                     !.isGameActive = FALSE,
                     !.reporting = IF /\ ~ client.hasReportedPnL
                                      /\ Player \in DOMAIN playerStates
                                      /\ client.reporting < MaxReporting
                                   THEN @ + 1 ELSE @]
    /\ lastCall' = NoCall
    /\ UNCHANGED <<clientStore, playerStates, swapHistory, clock, duelTrades>>

\* reportPnL resolves: true when the backend answered ok, else false
ReportReturns ==
    /\ client.reporting > 0
    /\ \E success \in BOOLEAN :
          client' = [client EXCEPT !.reporting = @ - 1,
                                   !.hasReportedPnL = @ \/ success]
    /\ lastCall' = NoCall
    /\ UNCHANGED <<clientStore, playerStates, swapHistory, clock, duelTrades>>

\* a second passes on the client's clock
ClockTick ==
    /\ clock < MaxClock
    /\ clock' = clock + 1
    /\ lastCall' = NoCall
    /\ UNCHANGED <<clientStore, playerStates, swapHistory, duelTrades, client>>

NextClient ==
    \/ PlayersInitialized
    \/ SyncTrades
    \/ HandleSwapStarts
    \/ ChainSwapReturns
    \/ TradeRecorded
    \/ SwapApplied
    \/ OpponentPosts
    \/ TimerFires
    \/ ReportReturns
    \/ ClockTick

SpecClient == InitContract /\ [][NextClient]_vars

(* ------------------------------------------------------------------------ *)
(* Properties of the trade journal and the client                           *)
(* ------------------------------------------------------------------------ *)

InWindow(timestamp) == StartTime <= timestamp /\ timestamp <= StartTime + DurationSecs

\* C28 (as claimed): the pnlPercent a client reports for settlement comes
\* from swaps made within [startTime, startTime + durationSecs] only: when a
\* report is sent, no swap in the player's history was executed outside it.
ReportedWithinWindow ==
    [][client'.reporting > client.reporting
         => \A k \in DOMAIN playerStates[Player].swapHistory :
                InWindow(playerStates[Player].swapHistory[k].timestamp)]_vars

\* C29: posting a trade whose txHash the journal holds already leaves the
\* journal, and so the list GET returns, as it was; no two entries of the
\* journal ever share a txHash.
RecordIdempotent ==
    [][/\ \A t \in OpponentTrades \cup {client.trade} :
              (/\ t.txHash # NoTxHash
               /\ ~ InvalidPayload(t)
               /\ \E i \in DOMAIN duelTrades : duelTrades[i].txHash = t.txHash
               /\ PostTrade(t))
              => getTradesForDuel(duelTrades') = getTradesForDuel(duelTrades)
       /\ \A i \in DOMAIN duelTrades', j \in DOMAIN duelTrades' :
              i # j => duelTrades'[i].txHash # duelTrades'[j].txHash]_vars
\* the opponent's POST of this second was answered 200 and the journal holds
\* the one entry of an earlier second under its txHash
RecordIdempotentWitness ==
    /\ lastCall.op = "POST /duels/:id/trades"
    /\ lastCall.caller = Opponent
    /\ lastCall.result = Ok
    /\ \E i \in DOMAIN duelTrades :
          /\ duelTrades[i].txHash \in OpponentHashes
          /\ duelTrades[i].timestamp < clock
    /\ \A h \in OpponentHashes :
          Cardinality({i \in DOMAIN duelTrades : duelTrades[i].txHash = h}) = 1

\* C30 (as claimed): every trade of the journal has been applied to the
\* client's DecibelSwapService at most once, by handleSwap or by a replay of
\* syncTrades.
AppliedAtMostOnce ==
    \A i \in DOMAIN duelTrades :
        Cardinality({k \in DOMAIN swapHistory :
                        swapHistory[k].txHash = duelTrades[i].txHash}) <= 1

(* ------------------------------------------------------------------------ *)
(* Properties of the duel record                                            *)
(* ------------------------------------------------------------------------ *)

\* C31: player_1, wager_amount and duration_secs of a duel never change;
\* player_2 and start_time change only in the successful join_duel of a duel
\* nobody had joined, and in no other call, failing or not.
DuelFieldsFrame ==
    [][\A id \in DOMAIN duels :
          /\ id \in DOMAIN duels'
          /\ duels'[id].player_1 = duels[id].player_1
          /\ duels'[id].wager_amount = duels[id].wager_amount
          /\ duels'[id].duration_secs = duels[id].duration_secs
          /\ (\/ duels'[id].player_2 # duels[id].player_2
              \/ duels'[id].start_time # duels[id].start_time)
             => /\ lastCall' = Call("join_duel", duels'[id].player_2, id, ZERO_ADDRESS,
                                    Ok, 0, 0)
                /\ duels[id].player_2 = ZERO_ADDRESS
                /\ duels[id].start_time = 0
                /\ duels'[id].start_time = now]_vars
\* a duel joined at a later time than 0 has been closed, start_time intact
DuelFieldsFrameWitness ==
    \E id \in DOMAIN duels :
        /\ duels[id].is_resolved
        /\ duels[id].player_2 # ZERO_ADDRESS
        /\ duels[id].start_time > 0
        /\ lastCall.op \in {"resolve_duel", "refund_expired"}
        /\ lastCall.result = Ok

\* C32 (as claimed): resolve_duel never succeeds at a time earlier than
\* start_time + duration_secs of the duel.
ResolvedAfterWindow ==
    (lastCall.op = "resolve_duel" /\ lastCall.result = Ok)
        => now >= duels[lastCall.duel_id].start_time + duels[lastCall.duel_id].duration_secs

\* C33: in every state of every duel, is_active and is_resolved are not both
\* set, is_active implies a second player, and a duel without second player
\* is not active and has start_time 0.
LifecycleFlagsConsistent ==
    \A id \in DOMAIN duels :
        /\ ~(duels[id].is_active /\ duels[id].is_resolved)
        /\ duels[id].is_active => duels[id].player_2 # ZERO_ADDRESS
        /\ duels[id].player_2 = ZERO_ADDRESS
               => (~ duels[id].is_active /\ duels[id].start_time = 0)
\* a refund has just closed a duel that was active
LifecycleFlagsConsistentWitness ==
    /\ lastCall.op = "refund_expired"
    /\ lastCall.result = Ok
    /\ duels[lastCall.duel_id].is_resolved
    /\ ~ duels[lastCall.duel_id].is_active

(* ------------------------------------------------------------------------ *)
(* Properties of the stored reports, the leaderboard and the auto-report    *)
(* ------------------------------------------------------------------------ *)

\* C34 (as claimed): reports[duelId] never holds more than two entries, nor
\* two entries of one address (letter case ignored).
AtMostTwoReports ==
    \A id \in DOMAIN reports :
        /\ Len(reports[id]) <= 2
        /\ \A i \in DOMAIN reports[id], j \in DOMAIN reports[id] :
               i # j => toLowerCase(reports[id][i].playerAddress)
                          # toLowerCase(reports[id][j].playerAddress)

\* the duelsWon counters of the leaderboard, added up
DuelsWonTotal ==
    SumOver([k \in DOMAIN userActivity |-> userActivity[k].duelsWon], DOMAIN userActivity)
\* the successful resolve_duel transactions, added up
SettledTotal ==
    SumOver([id \in DOMAIN flow |-> flow[id].ended], DOMAIN flow)

\* C35 (as claimed): with the admin account configured and no
\* reportPnlForDuel in progress, the leaderboard counts no more duels won
\* than duels have been settled on the chain.
WonOnlyWhenSettled ==
    (adminAccount /\ calls = EmptyBag) => DuelsWonTotal <= SettledTotal

\* C36 (as claimed): the client never has two report-pnl requests in flight.
OneReportInFlight == client.reporting <= 1

(* ------------------------------------------------------------------------ *)
(* The daily leaderboard (leaderboardService.ts and the /leaderboard        *)
(* routes)                                                                  *)
(* ------------------------------------------------------------------------ *)
OCTAS_PER_APT == 1000000000
DEFAULT_LIMIT == 10
TOP == 10
RANK_LIMIT == 100
NullRank == 0
NoTokenAmount == -1

MaxTracked == 1
MaxClaiming == 1
MaxRewards == 2
LeaderboardUsers == {"alice", "ALICE", "bob"}
Limits == {0, 1}
TokenAmounts == {NoTokenAmount, 0, 100}

\* calculateScore; the counters are integers and the wager is not negative,
\* so the floor of the sum is the sum with the whole APT of the wager
calculateScore(activity) ==
    activity.duelsCreated * 10 + activity.duelsJoined * 5
        + activity.duelsWon * 20 + activity.totalSwaps
        + activity.totalWagerAmount \div OCTAS_PER_APT

\* getDailyLeaderboard, lines 146-160: one entry per record, in the Map's
\* order (totalWagerAmount in whole APT)
Entries(ua) ==
    [i \in DOMAIN ua |->
        [rank |-> 0, address |-> ua[i].address, score |-> calculateScore(ua[i]),
         duelsCreated |-> ua[i].duelsCreated, duelsJoined |-> ua[i].duelsJoined,
         duelsWon |-> ua[i].duelsWon, totalSwaps |-> ua[i].totalSwaps,
         totalWagerAmount |-> ua[i].totalWagerAmount \div OCTAS_PER_APT]]

\* lines 163-168: Array.prototype.sort is stable, so entries of equal score
\* keep the Map's order; the rank is the position after sorting
PlaceOf(entries, i) ==
    1 + Cardinality({j \in DOMAIN entries :
                        \/ entries[j].score > entries[i].score
                        \/ entries[j].score = entries[i].score /\ j < i})
Ranked(entries) ==
    [r \in DOMAIN entries |->
        LET i == CHOOSE i \in DOMAIN entries : PlaceOf(entries, i) = r
        IN [entries[i] EXCEPT !.rank = r]]

\* entries.slice(0, limit), limit >= 0
slice(entries, limit) ==
    [r \in 1..(IF limit < Len(entries) THEN limit ELSE Len(entries)) |-> entries[r]]

\* getDailyLeaderboard after its daily reset
getDailyLeaderboard(ua, limit) == slice(Ranked(Entries(ua)), limit)

\* isUserInTop10 after the daily reset
isUserInTop10(ua, userAddress) ==
    LET leaderboard == getDailyLeaderboard(ua, TOP) IN
    \E r \in DOMAIN leaderboard :
        toLowerCase(leaderboard[r].address) = toLowerCase(userAddress)

\* getUserRank after the daily reset: rank and score of the address, and the
\* Map as getUserRank leaves it (line 200 calls getUserActivity for an
\* address that is not on the leaderboard)
getUserRank(ua, userAddress) ==
    LET leaderboard == getDailyLeaderboard(ua, RANK_LIMIT)
        found == {r \in DOMAIN leaderboard :
                    toLowerCase(leaderboard[r].address) = toLowerCase(userAddress)}
    IN IF found # {}
       THEN LET userEntry == leaderboard[CHOOSE r \in found : TRUE]
            IN [rank |-> userEntry.rank, score |-> userEntry.score, map |-> ua]
       ELSE LET map == getUserActivity(ua, userAddress)
                activity == map[ActivityIndex(map, toLowerCase(userAddress))]
            IN [rank |-> NullRank, score |-> calculateScore(activity), map |-> map]

\* trackSwapExecuted: daily reset, then totalSwaps += 1
trackSwapExecuted(ua, playerAddress) ==
    LET map == getUserActivity(checkAndResetDaily(ua), playerAddress)
        i == ActivityIndex(map, toLowerCase(playerAddress))
    IN [map EXCEPT ![i].totalSwaps = @ + 1]

leaderboardRest == <<ledgerVars, now, lastCall, adminAccount, photonResponds, reports,
                     calls, photon, lastHttp, nReports, tradingVars>>

\* POST /leaderboard/report-swap with a valid payload
ReportSwap(playerAddress) ==
    /\ \A i \in DOMAIN userActivity : userActivity[i].totalSwaps < MaxTracked
    /\ userActivity' = trackSwapExecuted(userActivity, playerAddress)
    /\ lastResetDate' = today
    /\ reply' = [route |-> "report-swap", status |-> 200]
    /\ UNCHANGED <<leaderboardRest, today, photonUserCache, claiming, rewards>>

\* POST /leaderboard/report-duel-created and /report-duel-joined with a valid
\* payload: the routes' module imports neither trackDuelCreated nor
\* trackDuelJoined (lines 247-253), the call throws a ReferenceError and the
\* catch clause answers 500
ReportDuelCreated(playerAddress) ==
    /\ reply' = [route |-> "report-duel-created", status |-> 500]
    /\ UNCHANGED <<leaderboardRest, userActivity, lastResetDate, today,
                   photonUserCache, claiming, rewards>>
ReportDuelJoined(playerAddress) ==
    /\ reply' = [route |-> "report-duel-joined", status |-> 500]
    /\ UNCHANGED <<leaderboardRest, userActivity, lastResetDate, today,
                   photonUserCache, claiming, rewards>>

\* GET /leaderboard?limit=: an absent or zero limit is the default one
GetLeaderboard(limit) ==
    /\ userActivity' = checkAndResetDaily(userActivity)
    /\ lastResetDate' = today
    /\ reply' = [route |-> "leaderboard", status |-> 200, date |-> today,
                 leaderboard |-> getDailyLeaderboard(userActivity',
                                    IF limit = 0 THEN DEFAULT_LIMIT ELSE limit)]
    /\ UNCHANGED <<leaderboardRest, today, photonUserCache, claiming, rewards>>

\* GET /leaderboard/user/:address: getUserRank, then isUserInTop10
GetUser(address) ==
    LET userRank == getUserRank(checkAndResetDaily(userActivity), address) IN
    /\ userActivity' = userRank.map
    /\ lastResetDate' = today
    /\ reply' = [route |-> "user", status |-> 200, address |-> address,
                 rank |-> userRank.rank, score |-> userRank.score,
                 inTop10 |-> isUserInTop10(userRank.map, address)]
    /\ UNCHANGED <<leaderboardRest, today, photonUserCache, claiming, rewards>>

\* the response of POST /leaderboard/claim (date: the day it was sent)
ClaimReply(userAddress, ok, tokenAmount) ==
    [route |-> "claim", status |-> IF ok THEN 200 ELSE 400, address |-> userAddress,
     tokenAmount |-> tokenAmount, date |-> today]

\* the event claimLeaderboardReward sends with trackCampaignEvent (the
\* event_id, which ends with Date.now(), is left out: the bag keeps every
\* event that was sent)
RewardEvent(c) ==
    [event_type |-> "game_win", user_id |-> toLowerCase(c.userAddress),
     rank |-> c.rank, score |-> c.score, date |-> today,
     walletAddress |-> c.userAddress]

Claiming(pc, userAddress, rank, score) ==
    [pc |-> pc, userAddress |-> userAddress, rank |-> rank, score |-> score]

\* claimLeaderboardReward, lines 257-271: trackCampaignEvent sends the event
SendReward(c) ==
    /\ BagCardinality(rewards) < MaxRewards
    /\ rewards' = rewards (+) One(RewardEvent(c))

\* claimLeaderboardReward from its entry to its first fetch, or to its return
\* when the user is not in the top 10
ClaimStarts(userAddress) ==
    LET map == checkAndResetDaily(userActivity)
        userRank == getUserRank(map, userAddress)
    IN /\ userActivity' = userRank.map
       /\ lastResetDate' = today
       /\ UNCHANGED <<leaderboardRest, today, photonUserCache>>
       /\ IF \/ ~isUserInTop10(map, userAddress)
             \/ userRank.rank = NullRank
             \/ userRank.rank > TOP
          THEN /\ reply' = ClaimReply(userAddress, FALSE, 0)
               /\ UNCHANGED <<claiming, rewards>>
          ELSE /\ BagCardinality(claiming) < MaxClaiming
               /\ UNCHANGED reply
               /\ LET c == Claiming("onboard", userAddress, userRank.rank, userRank.score)
                  IN IF toLowerCase(userAddress) \in photonUserCache
                     THEN /\ SendReward(c)
                          /\ claiming' = claiming (+) One([c EXCEPT !.pc = "event"])
                     ELSE /\ claiming' = claiming (+) One(c)
                          /\ UNCHANGED rewards

\* onboardUserToPhoton returns: the user is cached and the event is sent, or
\* the claim fails with no user
OnboardReturns(c, response) ==
    /\ c.pc = "onboard"
    /\ photonResponds
    /\ UNCHANGED <<leaderboardRest, userActivity, lastResetDate, today>>
    /\ IF response = "ok"
       THEN /\ photonUserCache' = photonUserCache \cup {toLowerCase(c.userAddress)}
            /\ SendReward(c)
            /\ claiming' = (claiming (-) One(c)) (+) One([c EXCEPT !.pc = "event"])
            /\ UNCHANGED reply
       ELSE /\ claiming' = claiming (-) One(c)
            /\ reply' = ClaimReply(c.userAddress, FALSE, 0)
            /\ UNCHANGED <<photonUserCache, rewards>>

\* trackCampaignEvent returns: success when the result has a token_amount
EventReturns(c, response, token_amount) ==
    /\ c.pc = "event"
    /\ photonResponds
    /\ claiming' = claiming (-) One(c)
    /\ reply' = IF trackCampaignEvent(response) = PhotonResult
                   /\ token_amount # NoTokenAmount
                THEN ClaimReply(c.userAddress, TRUE, token_amount)
                ELSE ClaimReply(c.userAddress, FALSE, 0)
    /\ UNCHANGED <<leaderboardRest, userActivity, lastResetDate, today,
                   photonUserCache, rewards>>

PostReportSwap == \E a \in LeaderboardUsers : ReportSwap(a)
PostReportDuelCreated == \E a \in LeaderboardUsers : ReportDuelCreated(a)
PostReportDuelJoined == \E a \in LeaderboardUsers : ReportDuelJoined(a)
GetDailyLeaderboard == \E limit \in Limits : GetLeaderboard(limit)
GetUserRank == \E a \in LeaderboardUsers : GetUser(a)
PostClaim == \E a \in LeaderboardUsers : ClaimStarts(a)
PhotonOnboards ==
    \E c \in BagToSet(claiming), r \in PhotonResponses : OnboardReturns(c, r)
PhotonRewards ==
    \E c \in BagToSet(claiming), r \in PhotonResponses, t \in TokenAmounts :
        EventReturns(c, r, t)
NextDay ==
    /\ today < MaxDay
    /\ today' = today + 1
    /\ UNCHANGED <<leaderboardRest, userActivity, lastResetDate, leaderboardStore>>

NextLeaderboard ==
    \/ PostReportSwap
    \/ PostReportDuelCreated
    \/ PostReportDuelJoined
    \/ GetDailyLeaderboard
    \/ GetUserRank
    \/ PostClaim
    \/ PhotonOnboards
    \/ PhotonRewards
    \/ NextDay

SpecLeaderboard == InitContract /\ [][NextLeaderboard]_vars

(* ------------------------------------------------------------------------ *)
(* Properties of the leaderboard                                            *)
(* ------------------------------------------------------------------------ *)

\* C37 (as claimed): getUserRank is read-only. Asking for the rank of an
\* address that has no record leaves userActivity as the daily reset leaves
\* it, and the address is on no leaderboard afterwards.
GetUserRankReadOnly ==
    [][\A a \in LeaderboardUsers :
         (/\ toLowerCase(a) \notin ActivityKeys(userActivity)
          /\ GetUser(a))
         => /\ userActivity' = checkAndResetDaily(userActivity)
            /\ \A r \in DOMAIN getDailyLeaderboard(userActivity', RANK_LIMIT) :
                 getDailyLeaderboard(userActivity', RANK_LIMIT)[r].address
                     # toLowerCase(a)]_vars

\* C38 (as claimed): the response of GET /leaderboard/user/:address is
\* consistent: inTop10 comes with a rank between 1 and 10, and a null rank
\* with inTop10 = false.
UserResponseConsistent ==
    reply.route = "user"
    => /\ reply.inTop10 => (reply.rank # NullRank /\ reply.rank \in 1..TOP)
       /\ reply.rank = NullRank => ~reply.inTop10

\* the reward events sent for a user on a day
RewardsOf(bag, user, date) ==
    SumOver([e \in BagToSet(bag) |->
                IF e.user_id = user /\ e.date = date THEN CopiesIn(e, bag) ELSE 0],
            BagToSet(bag))

\* C39 (as claimed): once a claim of a user has succeeded, no step of the
\* same UTC day sends another reward event for that user.
NoSecondReward ==
    [][(/\ reply.route = "claim"
        /\ reply.status = 200
        /\ reply.date = today
        /\ today' = today)
       => RewardsOf(rewards', toLowerCase(reply.address), today)
             = RewardsOf(rewards, toLowerCase(reply.address), today)]_vars

(* ------------------------------------------------------------------------ *)
(* The contract called with arguments from the whole u64 range              *)
(* ------------------------------------------------------------------------ *)
\* duration_secs: the small values, and the two at the end of the word
WideDurations == Durations \cup {MAX_U64 - GRACE_PERIOD_SECS, MAX_U64}

CreateDuelWide ==
    /\ \E p \in Signers, w \in Wagers, s \in WideDurations : create_duel(p, w, s)
    /\ UNCHANGED refereeVars

NextWide ==
    \/ CreateDuelWide
    \/ JoinDuel
    \/ ResolveDuel
    \/ RefundExpired
    \/ Tick

SpecWide == InitContract /\ [][NextWide]_vars

\* C40 (as claimed): for every duel that create_duel and join_duel accepted,
\* the fee's product and the end time's sum fit a u64, so the admin can
\* settle the Active duel or a time exists at which anyone can refund it.
SettlementArithmeticFits ==
    \A id \in DOMAIN duels :
        duels[id].is_active
        => /\ ~Overflows(duels[id].pot * FEE_BASIS_POINTS)
           /\ ~EndTimeOverflows(duels[id])
           /\ \/ resolve_abort(ADMIN_ADDRESS, id, duels[id].player_1) = Ok
              \/ EndTime(duels[id]) < MAX_U64

====
